---- MODULE Spec2Model ----
(***************************************************************************)
(* A model of PySpice/Spice/EBNFParser.py: the walker that lowers a SPICE  *)
(* syntax tree to the statement IR, the resolver of SpiceParser.__init__   *)
(* (_check_models, _sort_subcircuits) and the replay of the IR into the    *)
(* netlist sink (CircuitStatement.build).                                  *)
(*                                                                         *)
(* Strings are sequences of one-character strings, so that str.lower(),    *)
(* name[0], name[1:] and the formatting of error messages are computed.    *)
(***************************************************************************)
EXTENDS Integers, Sequences, FiniteSets, TLC

(***************************************************************************)
(* Strings                                                                 *)
(***************************************************************************)
UpperCase == <<"A", "B", "C", "D", "E", "F", "G", "H", "I", "J", "K", "L", "M",
               "N", "O", "P", "Q", "R", "S", "T", "U", "V", "W", "X", "Y", "Z">>

LowerCase == <<"a", "b", "c", "d", "e", "f", "g", "h", "i", "j", "k", "l", "m",
               "n", "o", "p", "q", "r", "s", "t", "u", "v", "w", "x", "y", "z">>

LowerChar(c) ==
    IF \E i \in DOMAIN UpperCase : UpperCase[i] = c
    THEN LowerCase[CHOOSE i \in DOMAIN UpperCase : UpperCase[i] = c]
    ELSE c

\* str.lower()
Lower(s) == [i \in DOMAIN s |-> LowerChar(s[i])]

\* pattern in text
Contains(text, pattern) ==
    \E i \in 0..(Len(text) - Len(pattern)) :
        \A j \in 1..Len(pattern) : text[i + j] = pattern[j]

\* Python's None
None == << >>

\* an empty dict
EmptyDict == << >>

Range(f) == {f[i] : i \in DOMAIN f}

(***************************************************************************)
(* Bounds of the model and the inputs drawn at each step                   *)
(***************************************************************************)
\* statements (blocks, elements, .model lines) in one netlist of the sort
MaxLines == 4
\* nesting depth of the blocks
MaxDepth == 2

Title == <<"T">>

\* path=None: CircuitStatement falls back to os.getcwd()
Cwd == <<"/", "w">>

\* the names .subckt lines define and the names X lines instantiate
SubcktNames == {<<"A">>, <<"b">>, <<"c">>}
InstanceNames == {<<"a">>, <<"B">>, <<"c">>}

(***************************************************************************)
(* State                                                                   *)
(***************************************************************************)
VARIABLES
    pc,             \* position in SpiceParser.__init__ / build_circuit
    path,           \* the path argument of SpiceParser.__init__ (None: source given)
    source,         \* the source argument of SpiceParser.__init__ (None: not given)
    library,        \* the library argument of SpiceParser.__init__
    files,          \* the files on disk: absolute path -> text
    raw_code,       \* the text SpiceParser.__init__ hands to the grammar (None: not read yet)
    scopes,         \* the scope statements by identity; scopes[Root] is the CircuitStatement
    present,        \* SpiceModelWalker._present
    context,        \* SpiceModelWalker._context
    libraries,      \* CircuitStatement._libraries: entry -> LibraryStatement
    library_calls,  \* CircuitStatement._library_calls
    data,           \* CircuitStatement._data: table -> DataStatement
    error,          \* the exception that left the constructor or build_circuit, or None
    parser,         \* TRUE once the constructor has returned a SpiceParser
    ground,         \* the ground argument of build_circuit, as build receives it
    calls,          \* the calls build has made on the netlist objects, in order
    builds          \* the number of build_circuit calls made on the parser

vars == <<pc, path, source, library, files, raw_code, scopes, present, context, libraries, library_calls,
          data, error, parser, ground, calls, builds>>

irVars == <<scopes, present, context, libraries, library_calls, data>>

Root == 1

\* SubCircuitStatement.__init__, LibraryStatement.__init__, and the scope part of
\* CircuitStatement.__init__. A LibraryStatement has no _required_models and no
\* _required_subcircuits attribute: HasRequired tells.
NewScope(kind, name, nodes, parameters) ==
    [kind |-> kind, name |-> name, nodes |-> nodes, parameters |-> parameters,
     statements |-> << >>, subcircuits |-> << >>, models |-> << >>, params |-> << >>,
     required_subcircuits |-> {}, required_models |-> {}]

HasRequired(kind) == kind \in {"circuit", "subckt"}

\* only CircuitStatement defines appendLibrary, appendLibraryCall and appendData
HasLibraries(kind) == kind = "circuit"

\* ElementStatement.__init__
ElementStatement(statement, name, nodes, params) ==
    [stmt |-> "element", statement |-> statement, prefix |-> Head(name),
     name |-> Tail(name), nodes |-> nodes, params |-> params]

ModelStatement(name, device, parameters) ==
    [name |-> name, model_type |-> device, parameters |-> parameters]

\* the path a CircuitStatement holds
CircuitPath == IF path # None THEN path ELSE Cwd

\* an exception: its type, str(e), and the function of the traceback that raised it
Exception(type, msg, raised_in) == [type |-> type, msg |-> msg, raised_in |-> raised_in]

\* an exception leaves SpiceParser.__init__: no parser object exists
Raise(type, msg, raised_in) ==
    /\ pc' = "failed"
    /\ error' = Exception(type, msg, raised_in)
    /\ UNCHANGED <<path, source, library, files, raw_code, scopes, present, context, libraries, library_calls,
                   data, parser, ground, calls, builds>>

Walking == pc = "walk"

\* walker steps leave these alone
WalkFrame == UNCHANGED <<pc, path, source, library, files, raw_code, error, parser, ground, calls, builds>>

(***************************************************************************)
(* SpiceParser.__init__, up to the walk                                    *)
(***************************************************************************)
GrammarMessage == <<"s", "y", "n", "t", "a", "x">>
ColonSpace == <<":", " ">>

\* a text, known by its .include lines: the file names they name, in order
Netlist(includes) == [includes |-> includes]

NoSuchFileMessage == <<"[", "E", "r", "r", "n", "o", " ", "2", "]", " ", "N", "o", " ", "s", "u", "c", "h", " ", "f", "i", "l", "e", " ", "o", "r", " ", "d", "i", "r", "e", "c", "t", "o", "r", "y", ":", " ", "'">>
NoPathOrSourceMessage == <<"N", "o", " ", "p", "a", "t", "h", " ", "o", "r", " ", "s", "o", "u", "r", "c", "e">>

\* str(e) of the FileNotFoundError of open(file_name)
NoSuchFile(file_name) == NoSuchFileMessage \o file_name \o <<"'">>

\* SpiceParser.__init__ up to the parse: the text comes from the file at path when
\* path is given, and else from source
Open ==
    /\ pc = "open"
    /\ IF path # None
       THEN IF path \in DOMAIN files
            THEN /\ raw_code' = files[path]
                 /\ pc' = "parse"
                 /\ UNCHANGED <<path, source, library, files, scopes, present, context,
                                libraries, library_calls, data, error, parser, ground,
                                calls, builds>>
            ELSE Raise("FileNotFoundError", NoSuchFile(path), "SpiceParser.__init__")
       ELSE IF source # None
       THEN /\ raw_code' = source
            /\ pc' = "parse"
            /\ UNCHANGED <<path, source, library, files, scopes, present, context,
                           libraries, library_calls, data, error, parser, ground, calls, builds>>
       ELSE Raise("ValueError", NoPathOrSourceMessage, "SpiceParser.__init__")

\* the grammar accepts the source or raises; walk_Circuit then creates the root
ParseSource(accepted) ==
    /\ pc = "parse"
    /\ IF accepted
       THEN /\ pc' = "walk"
            /\ scopes' = <<NewScope("circuit", Title, << >>, EmptyDict)>>
            /\ present' = Root
            /\ UNCHANGED <<path, source, library, files, raw_code, context, libraries, library_calls, data,
                           error, parser, ground, calls, builds>>
       ELSE Raise("ParseError",
                  IF path # None THEN path \o ColonSpace \o GrammarMessage
                  ELSE GrammarMessage,
                  "parse")

(***************************************************************************)
(* SpiceModelWalker                                                        *)
(***************************************************************************)
PresentAppend(statement) ==
    scopes' = [scopes EXCEPT ![present].statements = Append(@, statement)]

MismatchMessage == <<"B", "e", "g", "i", "n", " ", "a", "n", "d", " ", "e", "n", "d", " ", "l", "i", "b", "r", "a", "r", "y", " ", "e", "n", "t", "r", "i", "e", "s", " ", "d", "i", "f", "f", "e", "r">>
NoModelMessage == <<"T", "h", "e", " ", "d", "e", "v", "i", "c", "e", " ", "h", "a", "s", " ", "n", "o", " ", "m", "o", "d", "e", "l">>
NoAttributeMessage == <<"o", "b", "j", "e", "c", "t", " ", "h", "a", "s", " ", "n", "o", " ", "a", "t", "t", "r", "i", "b", "u", "t", "e">>

\* walk_SubcktCmd up to the walk of the block's lines: name is the opener's name,
\* closer the name after .ends (None when it is omitted)
SubcktCmd(name, closer, nodes, parameters) ==
    /\ Walking
    /\ IF closer # None /\ name # closer
       THEN Raise("NameError", MismatchMessage, "walk_SubcktCmd")
       ELSE /\ scopes' = Append(scopes, NewScope("subckt", name, nodes, parameters))
            /\ context' = Append(context, present)
            /\ present' = Len(scopes) + 1
            /\ UNCHANGED <<libraries, library_calls, data>>
            /\ WalkFrame

\* walk_SubcktCmd after the walk of the block's lines
SubcktEnd ==
    /\ Walking
    /\ scopes[present].kind = "subckt"
    /\ LET tmp == context[Len(context)]
       IN /\ scopes' = [scopes EXCEPT ![tmp].subcircuits = Append(@, present)]
          /\ context' = SubSeq(context, 1, Len(context) - 1)
          /\ present' = tmp
    /\ UNCHANGED <<libraries, library_calls, data>>
    /\ WalkFrame

\* walk_Subcircuit: an X element; node_node holds the pins, then the subcircuit
\* name, then (when params is set) the params: keyword
Subcircuit(dev, node_node, params, parameters) ==
    /\ Walking
    /\ LET last == IF params THEN Len(node_node) - 1 ELSE Len(node_node)
           subcircuit_name == node_node[last]
           nodes == SubSeq(node_node, 1, last - 1)
       IN IF ~HasRequired(scopes[present].kind)
          THEN Raise("AttributeError", NoAttributeMessage, "walk_Subcircuit")
          ELSE /\ scopes' = [scopes EXCEPT
                     ![present].required_subcircuits = @ \cup {Lower(subcircuit_name)},
                     ![present].statements =
                         Append(@, ElementStatement("SubCircuitElement", dev,
                                                    <<subcircuit_name>> \o nodes,
                                                    parameters))]
               /\ UNCHANGED <<present, context, libraries, library_calls, data>>
               /\ WalkFrame

\* walk_ModelCmd
ModelCmd(name, device, parameters) ==
    /\ Walking
    /\ scopes' = [scopes EXCEPT
           ![present].models = Append(@, ModelStatement(name, device, parameters))]
    /\ UNCHANGED <<present, context, libraries, library_calls, data>>
    /\ WalkFrame

\* walk_MOSFET: model is None when the line names no model
MOSFET(dev, nodes, model, param) ==
    /\ Walking
    /\ IF model = None
       THEN Raise("ValueError", NoModelMessage, "walk_MOSFET")
       ELSE IF ~HasRequired(scopes[present].kind)
       THEN Raise("AttributeError", NoAttributeMessage, "walk_MOSFET")
       ELSE /\ scopes' = [scopes EXCEPT
                  ![present].required_models = @ \cup {Lower(model)},
                  ![present].statements =
                      Append(@, ElementStatement("Mosfet", dev, nodes,
                                                 ("model" :> model) @@ param))]
            /\ UNCHANGED <<present, context, libraries, library_calls, data>>
            /\ WalkFrame

\* an exception leaves the walk after the walker changed the IR
RaiseAfter(type, msg, raised_in, sc) ==
    /\ pc' = "failed"
    /\ error' = Exception(type, msg, raised_in)
    /\ scopes' = sc
    /\ UNCHANGED <<path, source, library, files, raw_code, present, context, libraries, library_calls,
                   data, parser, ground, calls, builds>>

\* self._present._required_models.add(model_name.lower())
RequireModel(sc, model_name) ==
    [sc EXCEPT ![present].required_models = @ \cup {Lower(model_name)}]

\* self._present.append(statement)
Appended(sc, statement) == [sc EXCEPT ![present].statements = Append(@, statement)]

\* a walker step that changes the scopes only
WalkTo(sc) ==
    /\ scopes' = sc
    /\ UNCHANGED <<present, context, libraries, library_calls, data>>
    /\ WalkFrame

Digits == {"0", "1", "2", "3", "4", "5", "6", "7", "8", "9"}

\* int(value) accepts the text
IsInt(value) == Len(value) > 0 /\ \A i \in DOMAIN value : value[i] \in Digits

\* float(value) accepts the text: digits around at most one point
IsFloat(value) ==
    /\ \A i \in DOMAIN value : value[i] \in Digits \cup {"."}
    /\ \E i \in DOMAIN value : value[i] \in Digits
    /\ Cardinality({i \in DOMAIN value : value[i] = "."}) <= 1

\* _to_number does not raise ValueError
IsNumber(value) == IsInt(value) \/ IsFloat(value)

\* _to_number of a text: int(value), or else float(value)
ToNumber(value) == [number |-> IF IsInt(value) THEN "int" ELSE "float", text |-> value]

\* kwargs.update(parameters)
Update(kwargs, parameters) == parameters @@ kwargs

\* kwargs without key (kwargs.pop(key))
Without(kwargs, key) == [k \in DOMAIN kwargs \ {key} |-> kwargs[k]]

NotCompatibleMessage == <<"P", "r", "e", "s", "e", "n", "t", " ", "d", "e", "v", "i", "c", "e", " ", "n", "o", "t", " ", "c", "o", "m", "p", "a", "t", "i", "b", "l", "e", " ", "w", "i", "t", "h", " ", "B", "J", "T", " ", "d", "e", "f", "i", "n", "i", "t", "i", "o", "n", ":", " ">>
HasNoModelOpen == <<"T", "h", "e", " ", "d", "e", "v", "i", "c", "e", " ">>
HasNoModelClose == <<" ", "h", "a", "s", " ", "n", "o", " ", "m", "o", "d", "e", "l">>
UnboundMessage == <<"l", "o", "c", "a", "l", " ", "v", "a", "r", "i", "a", "b", "l", "e", " ", "r", "e", "f", "e", "r", "e", "n", "c", "e", "d", " ", "b", "e", "f", "o", "r", "e", " ", "a", "s", "s", "i", "g", "n", "m", "e", "n", "t">>

\* walk_BJT: substrate, area and parameters are None when the line has none; args
\* holds the positional texts after the emitter
BJT(dev, collector, base, emitter, substrate, area, args, parameters) ==
    /\ Walking
    /\ LET l_args == Len(args)
           nodes == <<collector, base, emitter>>
                        \o (IF substrate # None THEN <<substrate>> ELSE << >>)
           \* the try of the branch converts the last positional text
           converted == area = None /\ l_args \in {2, 3} /\ IsNumber(args[l_args])
           kwargs == IF converted THEN "area" :> ToNumber(args[l_args]) ELSE EmptyDict
           all_kwargs == IF parameters # None THEN Update(kwargs, parameters) ELSE kwargs
           finish(all_nodes, model_name) ==
               IF ~HasRequired(scopes[present].kind)
               THEN Raise("AttributeError", NoAttributeMessage, "walk_BJT")
               ELSE WalkTo(Appended(RequireModel(scopes, model_name),
                                    ElementStatement("BipolarJunctionTransistor", dev,
                                                     all_nodes,
                                                     ("model" :> model_name) @@ all_kwargs)))
       IN CASE l_args = 0 ->
                   Raise("ValueError", HasNoModelOpen \o dev \o HasNoModelClose, "walk_BJT")
            [] l_args = 1 -> finish(nodes, args[1])
            [] l_args = 2 ->
                   IF converted THEN finish(nodes, args[1])
                   ELSE IF area = None THEN finish(Append(nodes, args[1]), args[2])
                   ELSE Raise("UnboundLocalError", UnboundMessage, "walk_BJT")
            [] l_args = 3 ->
                   IF ~converted /\ area = None /\ substrate = None
                   THEN finish(nodes \o <<args[1], args[2]>>, args[3])
                   ELSE Raise("ValueError", NotCompatibleMessage \o dev, "walk_BJT")
            [] OTHER -> Raise("ValueError", NotCompatibleMessage \o dev, "walk_BJT")

OneControlMessage == <<"O", "n", "l", "y", " ", "o", "n", "e", " ", "c", "o", "n", "t", "r", "o", "l", " ", "n", "o", "d", "e", " ", "d", "e", "f", "i", "n", "e", "d">>

\* walk_Switch: model, initial_state, control_p and control_n are None when the
\* line has none
Switch(dev, positive, negative, control_p, control_n, model, initial_state) ==
    /\ Walking
    /\ LET kwargs == (IF model # None THEN "model" :> model ELSE EmptyDict)
                         @@ (IF initial_state # None
                             THEN "initial_state" :> initial_state ELSE EmptyDict)
           required == IF model # None THEN RequireModel(scopes, model) ELSE scopes
           finish(nodes) ==
               WalkTo(Appended(required,
                               ElementStatement("VoltageControlledSwitch", dev, nodes,
                                                kwargs)))
       IN IF model # None /\ ~HasRequired(scopes[present].kind)
          THEN Raise("AttributeError", NoAttributeMessage, "walk_Switch")
          ELSE IF control_p # None
          THEN IF control_n # None
               THEN finish(<<positive, negative, control_p, control_n>>)
               ELSE RaiseAfter("ValueError", OneControlMessage, "walk_Switch", required)
          ELSE IF control_n = None
               THEN finish(<<positive, negative>>)
               ELSE RaiseAfter("UnboundLocalError", UnboundMessage, "walk_Switch",
                               required)

\* walk_Resistor: model, value and parameters are None when the line has none
Resistor(dev, positive, negative, model, value, parameters) ==
    /\ Walking
    /\ LET with_model == IF model # None THEN "model" :> model ELSE EmptyDict
           with_value == IF value # None
                         THEN ("resistance" :> value) @@ with_model ELSE with_model
           updated == IF parameters # None THEN Update(with_value, parameters)
                      ELSE with_value
           kwargs == IF value # None THEN updated
                     ELSE IF "r" \in DOMAIN updated
                     THEN ("resistance" :> updated["r"]) @@ Without(updated, "r")
                     ELSE IF "R" \in DOMAIN updated
                     THEN ("resistance" :> updated["R"]) @@ Without(updated, "R")
                     ELSE updated
           required == IF model # None THEN RequireModel(scopes, model) ELSE scopes
       IN IF model # None /\ ~HasRequired(scopes[present].kind)
          THEN Raise("AttributeError", NoAttributeMessage, "walk_Resistor")
          ELSE WalkTo(Appended(required,
                               ElementStatement("Resistor", dev, <<positive, negative>>,
                                                kwargs)))

\* walk_ParamCmd: parameters is None when the line has none
ParamCmd(parameters) ==
    /\ Walking
    /\ scopes' = [scopes EXCEPT
           ![present].params =
               Append(@, [parameters |-> IF parameters # None THEN parameters
                                         ELSE EmptyDict])]
    /\ UNCHANGED <<present, context, libraries, library_calls, data>>
    /\ WalkFrame

PerParameterMessage == <<"T", "h", "e", " ", "n", "u", "m", "b", "e", "r", " ", "o", "f", " ", "e", "l", "e", "m", "e", "n", "t", "s", " ", "p", "e", "r", " ", "p", "a", "r", "a", "m", "e", "t", "e", "r", " ", "d", "o", " ", "n", "o", "t", " ", "m", "a", "t", "c", "h", " ", "(", "l", "i", "n", "e", ":", " ">>
DivisionMessage == <<"i", "n", "t", "e", "g", "e", "r", " ", "d", "i", "v", "i", "s", "i", "o", "n", " ", "o", "r", " ", "m", "o", "d", "u", "l", "o", " ", "b", "y", " ", "z", "e", "r", "o">>
MultipleValuesMessage == <<"g", "o", "t", " ", "m", "u", "l", "t", "i", "p", "l", "e", " ", "v", "a", "l", "u", "e", "s", " ", "f", "o", "r", " ", "a", "r", "g", "u", "m", "e", "n", "t", " ", "'", "t", "a", "b", "l", "e", "'">>
TableKeyword == <<"t", "a", "b", "l", "e">>

\* the column taken as a run of neighbours, values[(idx - 1) * rows : idx * rows]
ColumnOfNeighbours(values, idx, n) ==
    [k \in 1..(Len(values) \div n) |-> values[(idx - 1) * (Len(values) \div n) + k]]

\* values[idx::n], idx counted from 1
Column(values, idx, n) ==
    [k \in 1..(IF idx > Len(values) THEN 0 ELSE (Len(values) - idx) \div n + 1) |->
         values[idx + (k - 1) * n]]

\* walk_DataCmd
DataCmd(table, names, values, line) ==
    /\ Walking
    /\ LET n == Len(names)
           \* dict(list of pairs): the last pair of a name stays
           last(name) == CHOOSE i \in DOMAIN names :
                             /\ names[i] = name
                             /\ \A j \in DOMAIN names : names[j] = name => j <= i
           parameters == [name \in Range(names) |-> Column(values, last(name), n)]
       IN IF n = 0
          THEN Raise("ZeroDivisionError", DivisionMessage, "walk_DataCmd")
          ELSE IF Len(values) % n # 0
          THEN Raise("ValueError", PerParameterMessage \o line \o <<")">>,
                     "walk_DataCmd")
          ELSE IF TableKeyword \in Range(names)
          THEN Raise("TypeError", MultipleValuesMessage, "walk_DataCmd")
          ELSE /\ data' = (table :> [table |-> table, parameters |-> parameters]) @@ data
               /\ UNCHANGED <<scopes, present, context, libraries, library_calls, builds>>
               /\ WalkFrame

\* the position of the last "/" of a path (0: none)
LastSlash(p) ==
    IF \E i \in DOMAIN p : p[i] = "/"
    THEN CHOOSE i \in DOMAIN p : p[i] = "/" /\ \A j \in DOMAIN p : p[j] = "/" => j <= i
    ELSE 0

\* os.path.split(p)[0] of an absolute path without a trailing "/"
SplitHead(p) == IF LastSlash(p) <= 1 THEN SubSeq(p, 1, LastSlash(p))
                ELSE SubSeq(p, 1, LastSlash(p) - 1)

\* include.replace('"', '')
Unquoted(include) == SelectSeq(include, LAMBDA c : c # "\"")

\* os.path.abspath(os.path.join(root, name)) of a plain file name
AbsJoin(root, name) ==
    IF root = << >> \/ root[Len(root)] = "/" THEN root \o name ELSE root \o <<"/">> \o name

\* file_name of IncludeStatement.__init__
IncludedFile(parent_path, include) == AbsJoin(SplitHead(parent_path), Unquoted(include))

RecursionMessage == <<"m", "a", "x", "i", "m", "u", "m", " ", "r", "e", "c", "u", "r", "s", "i", "o", "n", " ", "d", "e", "p", "t", "h", " ", "e", "x", "c", "e", "e", "d", "e", "d">>

\* the nested constructions SpiceParser(path=file_name) that the interpreter's
\* recursion limit lets .include reach
RecursionLimit == 3

\* SpiceParser(path=file_name) of IncludeStatement.__init__, the depth-th construction
\* below the parser of the main text, for a file whose lines other than .include
\* raise nothing: None when it returns, and else the exception that leaves it.  The
\* .include lines of the file are walked from the from-th on.
RECURSIVE NestedParser(_, _, _)
NestedParser(file_name, depth, from) ==
    IF depth > RecursionLimit
    THEN Exception("RecursionError", RecursionMessage, "SpiceParser.__init__")
    ELSE IF file_name \notin DOMAIN files
    THEN Exception("FileNotFoundError", NoSuchFile(file_name), "SpiceParser.__init__")
    ELSE IF from > Len(files[file_name].includes) THEN None
    ELSE LET e == NestedParser(IncludedFile(file_name, files[file_name].includes[from]),
                               depth + 1, 1)
         IN IF e # None
            THEN Exception("FileNotFoundError", file_name \o ColonSpace \o e.msg,
                           "IncludeStatement.__init__")
            ELSE NestedParser(file_name, depth, from + 1)

\* walk_IncludeCmd and IncludeStatement.__init__: included is None when the nested
\* SpiceParser(path=file_name) returns, and str(e) of the exception when it raises
IncludeCmd(filename, included) ==
    /\ Walking
    /\ IF included # None
       THEN Raise("FileNotFoundError", CircuitPath \o ColonSpace \o included,
                  "IncludeStatement.__init__")
       ELSE WalkTo(Appended(scopes, [stmt |-> "include", include |-> filename]))

\* the walk of the next .include line of the text, in the root scope
IncludeLine ==
    /\ Walking
    /\ present = Root
    /\ Len(scopes[Root].statements) < Len(raw_code.includes)
    /\ LET filename == raw_code.includes[Len(scopes[Root].statements) + 1]
           e == NestedParser(IncludedFile(CircuitPath, filename), 1, 1)
       IN IncludeCmd(filename, IF e = None THEN None ELSE e.msg)

EntriesDifferMessage == <<"B", "e", "g", "i", "n", " ", "a", "n", "d", " ", "e", "n", "d", " ", "l", "i", "b", "r", "a", "r", "y", " ", "e", "n", "t", "r", "i", "e", "s", " ", "d", "i", "f", "f", "e", "r", ":", " ">>
DiffersText == <<" ", "!", "=", " ">>

\* entries[i - 1]: node.entry is a text when the statement names one entry and a
\* list of two texts when it names two
Entry(entries, is_list, i) == IF is_list THEN entries[i] ELSE <<entries[i]>>

\* the check of walk_LibBlock and walk_LibCall raises
EntriesDiffer(entries, is_list) ==
    Len(entries) = 2 /\ Entry(entries, is_list, 1) # Entry(entries, is_list, 2)

EntriesDifferError(entries, is_list, raised_in) ==
    Raise("NameError",
          EntriesDifferMessage \o Entry(entries, is_list, 1) \o DiffersText
              \o Entry(entries, is_list, 2),
          raised_in)

\* entries after the check
EntryOf(entries, is_list) ==
    IF Len(entries) = 2 THEN Entry(entries, is_list, 1) ELSE entries

\* walk_LibBlock up to the walk of the block's lines
LibBlock(entries, is_list) ==
    /\ Walking
    /\ IF EntriesDiffer(entries, is_list)
       THEN EntriesDifferError(entries, is_list, "walk_LibBlock")
       ELSE /\ scopes' = Append(scopes, NewScope("lib", EntryOf(entries, is_list), << >>,
                                                 EmptyDict))
            /\ context' = Append(context, present)
            /\ present' = Len(scopes) + 1
            /\ UNCHANGED <<libraries, library_calls, data>>
            /\ WalkFrame

\* walk_LibBlock after the walk of the block's lines
LibEnd ==
    /\ Walking
    /\ scopes[present].kind = "lib"
    /\ LET tmp == context[Len(context)]
       IN IF ~HasLibraries(scopes[tmp].kind)
          THEN Raise("AttributeError", NoAttributeMessage, "walk_LibBlock")
          ELSE /\ libraries' = (scopes[present].name :> present) @@ libraries
               /\ context' = SubSeq(context, 1, Len(context) - 1)
               /\ present' = tmp
               /\ UNCHANGED <<scopes, library_calls, data>>
               /\ WalkFrame

\* walk_LibCall
LibCall(filename, entries, is_list) ==
    /\ Walking
    /\ IF EntriesDiffer(entries, is_list)
       THEN EntriesDifferError(entries, is_list, "walk_LibCall")
       ELSE IF ~HasLibraries(scopes[present].kind)
       THEN Raise("AttributeError", NoAttributeMessage, "walk_LibCall")
       ELSE /\ library_calls' =
                   Append(library_calls,
                          [library |-> filename, entry |-> EntryOf(entries, is_list)])
            /\ UNCHANGED <<scopes, present, context, libraries, data>>
            /\ WalkFrame

\* walk_Device: the text of the device name as the walker hands it on
Device(ast) ==
    IF Head(ast) \in {"E", "F", "G", "H"} THEN <<"B">> \o ast ELSE ast

NotProperlyOpen == <<"D", "e", "v", "i", "c", "e", " ">>
NotProperlyClose == <<" ", "n", "o", "t", " ", "p", "r", "o", "p", "e", "r", "l", "y", " ", "d", "e", "f", "i", "n", "e", "d">>

\* the expression V(positive, negative) * value, or I(device) * value
Product(function, arguments, value) ==
    [function |-> function, arguments |-> arguments, times |-> value]

\* the element of an E, F, G or H line, the expression under the long key
ControlledSourceLongKey(dev, positive, negative, kwargs) ==
    WalkTo(Appended(scopes,
                    ElementStatement("BehavioralSource", Device(dev),
                                     <<positive, negative>>,
                                     IF "V" \in DOMAIN kwargs
                                     THEN "voltage_expression" :> kwargs["V"]
                                     ELSE "current_expression" :> kwargs["I"])))

\* the element of an E, F, G or H line
ControlledSource(dev, positive, negative, kwargs) ==
    WalkTo(Appended(scopes, ElementStatement("BehavioralSource", Device(dev),
                                             <<positive, negative>>, kwargs)))

\* walk_VoltageControlledVoltageSource (an E line): controller, the control nodes
\* and gain are None when the line has none
VoltageControlledVoltageSource(dev, positive, negative, controller, control_positive, control_negative, gain) ==
    /\ Walking
    /\ IF controller = None /\ control_positive = None /\ control_negative = None
              /\ gain = None
       THEN Raise("ValueError", NotProperlyOpen \o dev \o NotProperlyClose,
                  "walk_VoltageControlledVoltageSource")
       ELSE ControlledSource(dev, positive, negative,
                "V" :> (IF controller # None THEN controller
                        ELSE Product("V", <<control_positive, control_negative>>, gain)))

\* walk_VoltageControlledCurrentSource (a G line)
VoltageControlledCurrentSource(dev, positive, negative, controller, control_positive, control_negative, transconductance) ==
    /\ Walking
    /\ IF controller = None /\ control_positive = None /\ control_negative = None
              /\ transconductance = None
       THEN Raise("ValueError", NotProperlyOpen \o dev \o NotProperlyClose,
                  "walk_VoltageControlledCurrentSource")
       ELSE ControlledSource(dev, positive, negative,
                "I" :> (IF controller # None THEN controller
                        ELSE Product("V", <<control_positive, control_negative>>,
                                     transconductance)))

\* walk_CurrentControlledCurrentSource (an F line); node.dev is never None, so the
\* test of lines 925-927 never raises
CurrentControlledCurrentSource(dev, positive, negative, controller, gain) ==
    /\ Walking
    /\ ControlledSource(dev, positive, negative,
           "I" :> (IF controller # None THEN controller
                   ELSE Product("I", <<Device(dev)>>, gain)))

\* walk_CurrentControlledVoltageSource (an H line); node.dev is never None, so the
\* test of lines 952-954 never raises
CurrentControlledVoltageSource(dev, positive, negative, controller, transresistance) ==
    /\ Walking
    /\ ControlledSource(dev, positive, negative,
           "V" :> (IF controller # None THEN controller
                   ELSE Product("I", <<Device(dev)>>, transresistance)))

\* the kwargs of walk_Capacitor and walk_Inductor: the value under key long, taken
\* from the line's value or else from the keyword lower or upper of the parameters
ValueKwargs(model, value, parameters, long, lower, upper) ==
    LET with_model == IF model # None THEN "model" :> model ELSE EmptyDict
        with_value == IF value # None THEN (long :> value) @@ with_model ELSE with_model
        updated == IF parameters # None THEN Update(with_value, parameters)
                   ELSE with_value
    IN IF value # None THEN updated
       ELSE IF lower \in DOMAIN updated
       THEN (long :> updated[lower]) @@ Without(updated, lower)
       ELSE IF upper \in DOMAIN updated
       THEN (long :> updated[upper]) @@ Without(updated, upper)
       ELSE updated

\* walk_Capacitor: model, value and parameters are None when the line has none
Capacitor(dev, positive, negative, model, value, parameters) ==
    /\ Walking
    /\ IF model # None /\ ~HasRequired(scopes[present].kind)
       THEN Raise("AttributeError", NoAttributeMessage, "walk_Capacitor")
       ELSE WalkTo(Appended(IF model # None THEN RequireModel(scopes, model) ELSE scopes,
                            ElementStatement("Capacitor", dev, <<positive, negative>>,
                                             ValueKwargs(model, value, parameters,
                                                         "capacitance", "c", "C"))))

\* walk_Inductor: model, value and parameters are None when the line has none
Inductor(dev, positive, negative, model, value, parameters) ==
    /\ Walking
    /\ IF model # None /\ ~HasRequired(scopes[present].kind)
       THEN Raise("AttributeError", NoAttributeMessage, "walk_Inductor")
       ELSE WalkTo(Appended(IF model # None THEN RequireModel(scopes, model) ELSE scopes,
                            ElementStatement("Inductor", dev, <<positive, negative>>,
                                             ValueKwargs(model, value, parameters,
                                                         "inductance", "l", "L"))))

(***************************************************************************)
(* SpiceParser._check_models                                               *)
(***************************************************************************)
RECURSIVE CheckModels(_, _, _)
RECURSIVE CheckModelsOf(_, _, _, _)
RECURSIVE CheckModelsOwnOnly(_, _, _)

Passed == [ok |-> TRUE, missing |-> {}, where |-> None]

\* the loop over circuit._subcircuits: the first subcircuit that raises ends it
CheckModelsOf(sc, subcircuits, i, p_available_models) ==
    IF i > Len(subcircuits) THEN Passed
    ELSE LET r == CheckModels(sc, subcircuits[i], p_available_models)
         IN IF r.ok THEN CheckModelsOf(sc, subcircuits, i + 1, p_available_models)
            ELSE r

\* CheckModels that forgets the models of the enclosing scopes
CheckModelsOwnOnly(sc, circuit, available_models) ==
    LET p_available_models ==
            {Lower(sc[circuit].models[i].name) : i \in DOMAIN sc[circuit].models}
        below == CheckModelsOf(sc, sc[circuit].subcircuits, 1, p_available_models)
        missing == sc[circuit].required_models \ p_available_models
    IN IF ~below.ok THEN below
       ELSE IF missing # {}
       THEN [ok |-> FALSE, missing |-> missing, where |-> sc[circuit].name]
       ELSE Passed

\* missing holds the names the loop over the set circuit._required_models can raise
\* for (its order is the set's); where is circuit.name
CheckModels(sc, circuit, available_models) ==
    LET p_available_models ==
            {Lower(model) : model \in available_models}
                \cup {Lower(sc[circuit].models[i].name) : i \in DOMAIN sc[circuit].models}
        below == CheckModelsOf(sc, sc[circuit].subcircuits, 1, p_available_models)
        missing == sc[circuit].required_models \ p_available_models
    IN IF ~below.ok THEN below
       ELSE IF missing # {}
       THEN [ok |-> FALSE, missing |-> missing, where |-> sc[circuit].name]
       ELSE Passed

ModelText == <<"M", "o", "d", "e", "l", " ", "(">>
SubcircuitText == <<"S", "u", "b", "c", "i", "r", "c", "u", "i", "t", " ", "(">>
NotAvailableText == <<")", " ", "n", "o", "t", " ", "a", "v", "a", "i", "l", "a", "b", "l", "e", " ", "i", "n", " ", "(">>
CloseText == <<")">>
CrossedText == <<"C", "r", "o", "s", "s", "e", "d", " ", "d", "e", "p", "e", "n", "d", "e", "n", "c", "i", "e", "s", " ", "(">>

\* the message without the parentheses: "Model %s not available in %s"
ModelNotAvailablePlain(model, name) ==
    <<"M", "o", "d", "e", "l", " ">> \o model
        \o <<" ", "n", "o", "t", " ", "a", "v", "a", "i", "l", "a", "b", "l", "e", " ", "i", "n", " ">>
        \o name

\* "Model (%s) not available in (%s)" % (model, circuit.name)
ModelNotAvailable(model, name) ==
    ModelText \o model \o NotAvailableText \o name \o CloseText

\* "Subcircuit (%s) not available in (%s)" % (subcircuit, circuit.name)
SubcircuitNotAvailable(subcircuit, name) ==
    SubcircuitText \o subcircuit \o NotAvailableText \o name \o CloseText

(***************************************************************************)
(* SpiceParser._sort_subcircuits                                           *)
(***************************************************************************)
RECURSIVE SortSubcircuits(_, _, _)
RECURSIVE SortBelowByName(_, _, _, _, _)
RECURSIVE SortBelow(_, _, _, _, _)
RECURSIVE SortedByLenLastFirst(_, _)
RECURSIVE SortedByLen(_, _)
RECURSIVE SortPass(_, _, _, _, _)
RECURSIVE SortPassAnyOrder(_, _, _, _, _)
RECURSIVE SortLoopKeepsRest(_, _, _, _)
RECURSIVE SortLoop(_, _, _, _)
RECURSIVE ItemNames(_, _, _)

\* a sort by len(item[1]) that is not stable: the items of k dependencies stand in
\* the reverse of their order
SortedByLenLastFirst(items, n) ==
    IF \A i \in DOMAIN items : Cardinality(items[i].depends) < n THEN << >>
    ELSE SelectSeq([i \in DOMAIN items |-> items[Len(items) + 1 - i]],
                   LAMBDA item : Cardinality(item.depends) = n)
             \o SortedByLenLastFirst(items, n + 1)

\* sorted(dependencies.items(), key=lambda item: len(item[1])): a stable sort,
\* the items of k dependencies in their order, for k from n upwards
SortedByLen(items, n) ==
    IF \A i \in DOMAIN items : Cardinality(items[i].depends) < n THEN << >>
    ELSE SelectSeq(items, LAMBDA item : Cardinality(item.depends) = n)
             \o SortedByLen(items, n + 1)

\* SortPass without the test of the dependencies: every item is appended
SortPassAnyOrder(sc, items, i, result, result_names) ==
    IF i > Len(items)
    THEN [result |-> result, result_names |-> result_names]
    ELSE SortPassAnyOrder(sc, items, i + 1, Append(result, items[i].subckt),
                          Append(result_names, Lower(sc[items[i].subckt].name)))

\* one run of "for item in items", from the i-th item on
SortPass(sc, items, i, result, result_names) ==
    IF i > Len(items)
    THEN [result |-> result, result_names |-> result_names]
    ELSE IF items[i].depends \subseteq Range(result_names)
    THEN SortPass(sc, items, i + 1, Append(result, items[i].subckt),
                  Append(result_names, Lower(sc[items[i].subckt].name)))
    ELSE SortPass(sc, items, i + 1, result, result_names)

\* SortLoop that appends what a pass without progress leaves, instead of leaving it
SortLoopKeepsRest(sc, items, result, result_names) ==
    LET pass == SortPass(sc, items, 1, result, result_names)
        left == SelectSeq(items, LAMBDA item : item.subckt \notin Range(pass.result))
    IN IF Len(items) = 0 \/ Len(left) = Len(items)
       THEN [items |-> << >>,
             result |-> result \o [i \in DOMAIN items |-> items[i].subckt]]
       ELSE SortLoopKeepsRest(sc, left, pass.result, pass.result_names)

\* while 0 < len(items) < previous
SortLoop(sc, items, result, result_names) ==
    LET pass == SortPass(sc, items, 1, result, result_names)
        left == SelectSeq(items, LAMBDA item : item.subckt \notin Range(pass.result))
    IN IF Len(items) = 0 \/ Len(left) = Len(items)
       THEN [items |-> items, result |-> result]
       ELSE SortLoop(sc, left, pass.result, pass.result_names)

\* the text of [(key.name, value) for key, value in items], the dependency sets left out
ItemNames(sc, items, i) ==
    IF i > Len(items) THEN << >>
    ELSE sc[items[i].subckt].name
             \o (IF i < Len(items) THEN <<",">> ELSE << >>)
             \o ItemNames(sc, items, i + 1)

\* SortBelow with dependencies keyed by the subcircuit's name instead of the
\* subcircuit: a later subcircuit of the same name takes the entry of the earlier
SortBelowByName(sc, subcircuits, i, p_available_subcircuits, dependencies) ==
    IF i > Len(subcircuits)
    THEN [ok |-> TRUE, scopes |-> sc, dependencies |-> dependencies]
    ELSE LET r == SortSubcircuits(sc, subcircuits[i], p_available_subcircuits)
             others == SelectSeq(dependencies,
                                 LAMBDA item : Lower(sc[item.subckt].name)
                                                   # Lower(sc[subcircuits[i]].name))
         IN IF r.ok
            THEN SortBelowByName(r.scopes, subcircuits, i + 1, p_available_subcircuits,
                                 Append(others, [subckt |-> subcircuits[i],
                                                 depends |-> r.required]))
            ELSE r

\* the loop "for subcircuit in circuit._subcircuits", from the i-th on: each
\* subcircuit is sorted in place and what it returns is its entry of dependencies
SortBelow(sc, subcircuits, i, p_available_subcircuits, dependencies) ==
    IF i > Len(subcircuits)
    THEN [ok |-> TRUE, scopes |-> sc, dependencies |-> dependencies]
    ELSE LET r == SortSubcircuits(sc, subcircuits[i], p_available_subcircuits)
         IN IF r.ok
            THEN SortBelow(r.scopes, subcircuits, i + 1, p_available_subcircuits,
                           Append(dependencies,
                                  [subckt |-> subcircuits[i], depends |-> r.required]))
            ELSE r

\* scopes is the IR as the call leaves it (the lists of the scopes sorted before an
\* exception stay sorted); required is the value returned
SortSubcircuits(sc, circuit, available_subcircuits) ==
    LET subcircuits == sc[circuit].subcircuits
        names == [i \in DOMAIN subcircuits |-> Lower(sc[subcircuits[i]].name)]
        p_available_subcircuits ==
            {Lower(subckt) : subckt \in available_subcircuits} \cup Range(names)
        below == SortBelow(sc, subcircuits, 1, p_available_subcircuits, << >>)
        missing == sc[circuit].required_subcircuits \ p_available_subcircuits
    IN IF ~below.ok THEN below
       ELSE IF missing # {}
       THEN [ok |-> FALSE, scopes |-> below.scopes, what |-> "subcircuit",
             missing |-> missing, where |-> sc[circuit].name]
       ELSE LET sorted == SortLoop(below.scopes, SortedByLen(below.dependencies, 0),
                                   << >>, << >>)
            IN IF Len(sorted.items) > 0
               THEN [ok |-> FALSE, scopes |-> below.scopes, what |-> "crossed",
                     missing |-> {ItemNames(below.scopes, sorted.items, 1)},
                     where |-> sc[circuit].name]
               ELSE [ok |-> TRUE,
                     scopes |-> [below.scopes EXCEPT ![circuit].subcircuits = sorted.result],
                     required |-> sc[circuit].required_subcircuits \ Range(names)]

(***************************************************************************)
(* SpiceParser.__init__, after the walk                                    *)
(***************************************************************************)
\* if library: the root's required sets are assigned its own definitions' names
Promoted(sc) ==
    IF library
    THEN [sc EXCEPT
             ![Root].required_models =
                 {Lower(sc[Root].models[i].name) : i \in DOMAIN sc[Root].models},
             ![Root].required_subcircuits =
                 {Lower(sc[sc[Root].subcircuits[i]].name) :
                      i \in DOMAIN sc[Root].subcircuits}]
    ELSE sc

\* raise ParseError("{}: ".format(self._path) + str(e)) from e
ResolveError(message, raised_in, sc) ==
    /\ pc' = "failed"
    /\ error' = Exception("ParseError", CircuitPath \o ColonSpace \o message, raised_in)
    /\ scopes' = sc
    /\ UNCHANGED <<path, source, library, files, raw_code, present, context, libraries, library_calls, data,
                   parser, ground, calls, builds>>

\* walk_Circuit returns once every block of the syntax tree has returned (the
\* context is empty again); the constructor then resolves the IR
Resolve ==
    /\ Walking
    /\ present = Root
    /\ context = << >>
    /\ LET circuit == Promoted(scopes)
           checked == CheckModels(circuit, Root, {})
           sorted == SortSubcircuits(circuit, Root, {})
       IN IF ~checked.ok
          THEN \E model \in checked.missing :
                   ResolveError(ModelNotAvailable(model, checked.where),
                                "_check_models", circuit)
          ELSE IF ~sorted.ok
          THEN \E name \in sorted.missing :
                   ResolveError(IF sorted.what = "subcircuit"
                                THEN SubcircuitNotAvailable(name, sorted.where)
                                ELSE CrossedText \o name \o CloseText,
                                "_sort_subcircuits", sorted.scopes)
          ELSE /\ pc' = "done"
               /\ scopes' = sorted.scopes
               /\ parser' = TRUE
               /\ UNCHANGED <<path, source, library, files, raw_code, present, context, libraries, library_calls,
                              data, error, ground, calls, builds>>

(***************************************************************************)
(* The predicates of SpiceParser                                            *)
(***************************************************************************)
\* bool(statement): Statement and its subclasses define neither __bool__ nor __len__,
\* so every statement object is true
Truth(statement) == TRUE

\* SpiceParser.is_only_subcircuit
is_only_subcircuit == ~Truth(scopes[Root]) /\ scopes[Root].subcircuits # << >>

\* SpiceParser.is_only_model
is_only_model ==
    ~Truth(scopes[Root]) /\ scopes[Root].subcircuits = << >> /\ scopes[Root].models # << >>

(***************************************************************************)
(* build: the replay of the IR into the netlist objects                    *)
(***************************************************************************)
\* the integer 0; no text has this form, a text being a sequence of characters
IntZero == <<"int", "0">>

\* str(ground)
Str(value) == IF value = IntZero THEN <<"0">> ELSE value

\* the Circuit object that CircuitStatement.build creates
CircuitSink == 0

\* the statement a call replays: entry index of list group of scope
Frame(scope, group, index) == [scope |-> scope, group |-> group, index |-> index]

\* the object a SubCircuit(...) call returns, by the order of creation
NewSink(log) == 1 + Cardinality({i \in DOMAIN log : log[i].op = "SubCircuit"})

\* the keys of a dict as a list
Keys(dict) ==
    CHOOSE keys \in [1..Cardinality(DOMAIN dict) -> DOMAIN dict] :
        Range(keys) = DOMAIN dict

\* ParamStatement.build: circuit.parameter(key, value) for the items of the dict
ParamStatementBuild(statement, circuit, origin) ==
    LET keys == Keys(statement.parameters)
    IN [k \in DOMAIN keys |->
            [op |-> "parameter", sink |-> circuit, key |-> keys[k],
             value |-> statement.parameters[keys[k]], origin |-> origin]]

\* ModelStatement.build
ModelStatementBuild(statement, circuit, origin) ==
    [op |-> "model", sink |-> circuit, name |-> statement.name,
     model_type |-> statement.model_type, parameters |-> statement.parameters,
     origin |-> origin]

\* ElementStatement.build: self._statement(circuit, self._name, *self._nodes,
\* **self._params); the ground argument is not used
ElementBuild(statement, circuit, p_ground, origin) ==
    [op |-> "element", sink |-> circuit, statement |-> statement.statement,
     name |-> statement.name, nodes |-> statement.nodes, params |-> statement.params,
     origin |-> origin]

RECURSIVE BuildParams(_, _, _, _, _, _)
\* for statement in self._params: statement.build(circuit)
BuildParams(sc, s, circuit, origin, i, log) ==
    IF i > Len(sc[s].params) THEN log
    ELSE BuildParams(sc, s, circuit, origin, i + 1,
                     log \o ParamStatementBuild(sc[s].params[i], circuit,
                                                Append(origin, Frame(s, "param", i))))

RECURSIVE BuildModels(_, _, _, _, _, _)
\* for statement in self._models: statement.build(circuit)
BuildModels(sc, s, circuit, origin, i, log) ==
    IF i > Len(sc[s].models) THEN log
    ELSE BuildModels(sc, s, circuit, origin, i + 1,
                     Append(log, ModelStatementBuild(sc[s].models[i], circuit,
                                                     Append(origin, Frame(s, "model", i)))))

RECURSIVE BuildElements(_, _, _, _, _, _, _)
\* for statement in self._statements: the ElementStatements are built
BuildElements(sc, s, circuit, p_ground, origin, i, log) ==
    IF i > Len(sc[s].statements) THEN log
    ELSE BuildElements(sc, s, circuit, p_ground, origin, i + 1,
                       IF sc[s].statements[i].stmt = "element"
                       THEN Append(log, ElementBuild(sc[s].statements[i], circuit, p_ground,
                                                     Append(origin, Frame(s, "element", i))))
                       ELSE log)

RECURSIVE SubCircuitBuild(_, _, _, _, _, _)
RECURSIVE BuildSubcircuits(_, _, _, _, _, _, _, _)

\* for statement in self._subcircuits: subckt = statement.build(ground,
\* parent=circuit); when register, circuit.subcircuit(subckt)
BuildSubcircuits(sc, s, circuit, p_ground, register, origin, i, log) ==
    IF i > Len(sc[s].subcircuits) THEN log
    ELSE LET at == Append(origin, Frame(s, "subcircuit", i))
             built == SubCircuitBuild(sc, sc[s].subcircuits[i], p_ground, circuit, at, log)
         IN BuildSubcircuits(sc, s, circuit, p_ground, register, origin, i + 1,
                             IF register
                             THEN Append(built.log,
                                         [op |-> "subcircuit", sink |-> circuit,
                                          subckt |-> built.subcircuit, origin |-> at])
                             ELSE built.log)

\* SubCircuitStatement.build
SubCircuitBuild(sc, s, p_ground, parent, origin, log) ==
    LET subcircuit == NewSink(log)
        created == Append(log, [op |-> "SubCircuit", sink |-> subcircuit,
                                name |-> sc[s].name, nodes |-> sc[s].nodes,
                                parameters |-> sc[s].parameters, parent |-> parent,
                                origin |-> origin])
        params == BuildParams(sc, s, subcircuit, origin, 1, created)
        models == BuildModels(sc, s, subcircuit, origin, 1, params)
        subcircuits == BuildSubcircuits(sc, s, subcircuit, p_ground, TRUE, origin, 1, models)
    IN [subcircuit |-> subcircuit,
        log |-> BuildElements(sc, s, subcircuit, p_ground, origin, 1, subcircuits)]

\* LibCallStatement.build, libraries[self._entry] found: the subcircuits of the
\* library are built with ground=circuit, and circuit.subcircuit is not called
LibCallBuild(sc, lib, circuit, origin, log) ==
    LET params == BuildParams(sc, lib, circuit, origin, 1, log)
        models == BuildModels(sc, lib, circuit, origin, 1, params)
    IN BuildSubcircuits(sc, lib, circuit, [sink |-> circuit], FALSE, origin, 1, models)

RECURSIVE BuildLibraryCalls(_, _, _)
\* for statement in self._library_calls: statement.build(circuit, self._libraries);
\* a call of an entry that self._libraries does not hold raises KeyError
BuildLibraryCalls(sc, i, log) ==
    IF i > Len(library_calls) THEN [ok |-> TRUE, log |-> log]
    ELSE IF library_calls[i].entry \notin DOMAIN libraries
    THEN [ok |-> FALSE, log |-> log, key |-> library_calls[i].entry]
    ELSE BuildLibraryCalls(sc, i + 1,
                           LibCallBuild(sc, libraries[library_calls[i].entry], CircuitSink,
                                        <<Frame(Root, "library_call", i)>>, log))

\* CircuitBuild that instantiates the elements before it builds the subcircuits
CircuitBuildElementsFirst(sc, p_ground) ==
    LET created == <<[op |-> "Circuit", sink |-> CircuitSink, title |-> sc[Root].name,
                      origin |-> << >>]>>
        replayed == BuildLibraryCalls(sc, 1, created)
        params == BuildParams(sc, Root, CircuitSink, << >>, 1, replayed.log)
        models == BuildModels(sc, Root, CircuitSink, << >>, 1, params)
        elements == BuildElements(sc, Root, CircuitSink, p_ground, << >>, 1, models)
    IN IF ~replayed.ok THEN replayed
       ELSE [ok |-> TRUE,
             log |-> BuildSubcircuits(sc, Root, CircuitSink, p_ground, TRUE, << >>, 1,
                                      elements)]

\* CircuitStatement.build
CircuitBuild(sc, p_ground) ==
    LET created == <<[op |-> "Circuit", sink |-> CircuitSink, title |-> sc[Root].name,
                      origin |-> << >>]>>
        replayed == BuildLibraryCalls(sc, 1, created)
        params == BuildParams(sc, Root, CircuitSink, << >>, 1, replayed.log)
        models == BuildModels(sc, Root, CircuitSink, << >>, 1, params)
        subcircuits == BuildSubcircuits(sc, Root, CircuitSink, p_ground, TRUE, << >>, 1,
                                        models)
    IN IF ~replayed.ok THEN replayed
       ELSE [ok |-> TRUE,
             log |-> BuildElements(sc, Root, CircuitSink, p_ground, << >>, 1, subcircuits)]

\* the build_circuit calls made on one parser
MaxBuilds == 2

\* a build_circuit that writes the translated ground node back into the elements
\* of the circuit, as ElementStatement.translate_ground_node sets out to do
BuildCircuitTranslating(p_ground) ==
    /\ pc \in {"done", "built", "build failed"}
    /\ builds < MaxBuilds
    /\ LET built == CircuitBuild(scopes, Str(p_ground))
           translated(nodes) ==
               [k \in DOMAIN nodes |->
                   IF Str(nodes[k]) = Str(p_ground) THEN IntZero ELSE nodes[k]]
           rewritten(statement) ==
               IF statement.stmt = "element"
               THEN [statement EXCEPT !.nodes = translated(statement.nodes)]
               ELSE statement
       IN /\ ground' = Str(p_ground)
          /\ calls' = built.log
          /\ builds' = builds + 1
          /\ scopes' = [s \in DOMAIN scopes |->
                           [scopes[s] EXCEPT !.statements =
                               [i \in DOMAIN scopes[s].statements |->
                                   rewritten(scopes[s].statements[i])]]]
          /\ IF built.ok
             THEN pc' = "built" /\ UNCHANGED error
             ELSE /\ pc' = "build failed"
                  /\ error' = Exception("KeyError", built.key, "LibCallStatement.build")
    /\ UNCHANGED <<path, source, library, files, raw_code, present, context, libraries, library_calls,
                   data, parser>>

\* SpiceParser.build_circuit(ground=p_ground) on a parser the constructor returned;
\* the parser keeps its circuit, so build_circuit can be called again
BuildCircuit(p_ground) ==
    /\ pc \in {"done", "built", "build failed"}
    /\ builds < MaxBuilds
    /\ LET built == CircuitBuild(scopes, Str(p_ground))
       IN /\ ground' = Str(p_ground)
          /\ calls' = built.log
          /\ builds' = builds + 1
          /\ IF built.ok
             THEN pc' = "built" /\ UNCHANGED error
             ELSE /\ pc' = "build failed"
                  /\ error' = Exception("KeyError", built.key, "LibCallStatement.build")
    /\ UNCHANGED <<path, source, library, files, raw_code, scopes, present, context, libraries, library_calls,
                   data, parser>>

(***************************************************************************)
(* Specifications                                                          *)
(***************************************************************************)
MainPath == <<"/", "m">>

\* a text without .include lines
NoIncludes == Netlist(<< >>)

\* a node name
Pin == <<"1">>

Init ==
    /\ pc = "parse"
    /\ path \in {None, MainPath}
    /\ source = (IF path = None THEN NoIncludes ELSE None)
    /\ library \in BOOLEAN
    /\ files = (MainPath :> NoIncludes)
    /\ raw_code = NoIncludes
    /\ scopes = << >>
    /\ present = 0
    /\ context = << >>
    /\ libraries = EmptyDict
    /\ library_calls = << >>
    /\ data = EmptyDict
    /\ error = None
    /\ parser = FALSE
    /\ ground = None
    /\ calls = << >>
    /\ builds = 0

RECURSIVE SumLines(_)
SumLines(i) ==
    IF i > Len(scopes) THEN 0
    ELSE Len(scopes[i].statements) + Len(scopes[i].models) + Len(scopes[i].params)
             + SumLines(i + 1)

\* the statements walked so far: the blocks opened and the lines appended
Lines ==
    (Len(scopes) - 1) + SumLines(1) + Len(library_calls) + Cardinality(DOMAIN data)

\* the netlists of the sort: .subckt blocks and X elements
InitSort == Init /\ path = None

NextSort ==
    \/ \E accepted \in BOOLEAN : ParseSource(accepted)
    \/ \E name \in SubcktNames :
           /\ Lines < MaxLines
           /\ Len(context) < MaxDepth
           /\ SubcktCmd(name, None, <<Pin>>, EmptyDict)
    \/ SubcktEnd
    \/ \E name \in InstanceNames :
           /\ Lines < MaxLines
           /\ Subcircuit(<<"X", "1">>, <<Pin, name>>, FALSE, EmptyDict)
    \/ Resolve

SpecSort == InitSort /\ [][NextSort]_vars

\* the netlists of the model check: .subckt blocks, .model lines and M elements
ModelNames == {<<"N", "1">>, <<"n", "2">>}
ModelRefs == {<<"n", "1">>, <<"U", "N", "K", "M", "O", "D">>}

InitModels == Init

NextModels ==
    \/ \E accepted \in BOOLEAN : ParseSource(accepted)
    \/ /\ Lines < MaxLines
       /\ Len(context) < MaxDepth
       /\ SubcktCmd(<<"A">>, None, <<Pin>>, EmptyDict)
    \/ SubcktEnd
    \/ \E name \in ModelNames :
           /\ Lines < MaxLines
           /\ ModelCmd(name, <<"n", "m", "o", "s">>, EmptyDict)
    \/ \E model \in ModelRefs :
           /\ Lines < MaxLines
           /\ MOSFET(<<"M", "1">>, <<Pin, Pin, Pin, Pin>>, model, EmptyDict)
    \/ Resolve

SpecModels == InitModels /\ [][NextModels]_vars

\* the netlists of the walk: one or two statements whose walker can raise
MaxWalkLines == 3

Bjt == <<"Q", "1">>
Sw == <<"S", "1">>
Mod == <<"Q", "M">>

\* the positional texts of a Q line after the emitter
BjtArgs == << << >>, <<Mod>>, <<Mod, <<"2">>>>, <<Pin, Mod>>, <<Pin, Mod, <<"2">>>>,
              <<Pin, Pin, Mod>>, <<Pin, Pin, Pin, Mod>> >>

\* an optional node and an optional area= value of a Q line
OptionalNode == <<None, Pin>>
OptionalArea == <<None, ToNumber(<<"2">>)>>

\* the entries of a .lib block: the opener's text alone, or opener and closer
LibEntries == << [entries |-> <<"t">>, is_list |-> FALSE],
                 [entries |-> <<"t", "t">>, is_list |-> FALSE],
                 [entries |-> <<"f", "s">>, is_list |-> FALSE],
                 [entries |-> <<<<"t">>, <<"t">>>>, is_list |-> TRUE],
                 [entries |-> <<<<"t">>, <<"T">>>>, is_list |-> TRUE] >>

InitWalk == Init /\ ~library

\* the .data lines: a table of two columns with one row, one row and a half, or two
\* rows of values
DataTable == <<"d">>
DataNames == <<<<"a">>, <<"b">>>>
DataValues == {<<<<"1">>, <<"2">>>>, <<<<"1">>, <<"2">>, <<"3">>>>,
               <<<<"1">>, <<"2">>, <<"3">>, <<"4">>>>}

NextWalk ==
    \/ \E accepted \in BOOLEAN : ParseSource(accepted)
    \/ \E a \in DOMAIN BjtArgs, s \in DOMAIN OptionalNode, r \in DOMAIN OptionalArea :
           /\ Lines < MaxWalkLines
           /\ BJT(Bjt, Pin, Pin, Pin, OptionalNode[s], OptionalArea[r], BjtArgs[a], None)
    \/ \E p \in DOMAIN OptionalNode, n \in DOMAIN OptionalNode, m \in {None, Mod} :
           /\ Lines < MaxWalkLines
           /\ Switch(Sw, Pin, Pin, OptionalNode[p], OptionalNode[n], m, None)
    \/ \E closer \in {None, <<"A">>, <<"a">>} :
           /\ Lines < MaxWalkLines
           /\ Len(context) < MaxDepth
           /\ SubcktCmd(<<"A">>, closer, <<Pin>>, EmptyDict)
    \/ SubcktEnd
    \/ \E e \in DOMAIN LibEntries :
           /\ Lines < MaxWalkLines
           /\ Len(context) < MaxDepth
           /\ LibBlock(LibEntries[e].entries, LibEntries[e].is_list)
    \/ LibEnd
    \/ \E values \in DataValues :
           /\ Lines < MaxWalkLines
           /\ DataCmd(DataTable, DataNames, values, <<"2">>)
    \/ Resolve

SpecWalk == InitWalk /\ [][NextWalk]_vars

\* the netlists of the build: .lib blocks and calls, .param and .model lines,
\* .subckt blocks and R elements
MaxBuildLines == 5

Gnd == <<"g", "n", "d">>

\* the ground argument of build_circuit: the default 0, or a node name
Grounds == <<IntZero, Gnd>>

InitBuild == Init /\ path = None /\ ~library

NextBuild ==
    \/ ParseSource(TRUE)
    \/ /\ Lines < MaxBuildLines
       /\ Len(context) < MaxDepth
       /\ SubcktCmd(<<"A">>, None, <<Pin>>, EmptyDict)
    \/ SubcktEnd
    \/ /\ Lines < MaxBuildLines
       /\ Len(context) < MaxDepth
       /\ LibBlock(<<"t">>, FALSE)
    \/ LibEnd
    \/ \E entry \in {<<"t">>, <<"u">>} :
           /\ Lines < MaxBuildLines
           /\ LibCall(<<"f">>, entry, FALSE)
    \/ /\ Lines < MaxBuildLines
       /\ ParamCmd("p" :> <<"1">>)
    \/ /\ Lines < MaxBuildLines
       /\ ModelCmd(<<"N", "1">>, <<"n", "m", "o", "s">>, EmptyDict)
    \/ \E positive \in {Pin, Gnd} :
           /\ Lines < MaxBuildLines
           /\ Resistor(<<"R", "1">>, positive, Pin, None, <<"1", "k">>, None)
    \/ Resolve
    \/ \E g \in DOMAIN Grounds : BuildCircuit(Grounds[g])

SpecBuild == InitBuild /\ [][NextBuild]_vars

\* the netlists of the devices: E, F, G, H, R, C and L lines
MaxDeviceLines == 2

\* a braced expression
Expr == [braced |-> <<"x">>]

\* the control of an E or G line: an expression, two control nodes and a gain, or
\* nothing
VoltageControls ==
    << [controller |-> Expr, positive |-> None, negative |-> None, gain |-> None],
       [controller |-> None, positive |-> Pin, negative |-> Pin, gain |-> <<"2">>],
       [controller |-> None, positive |-> None, negative |-> None, gain |-> None] >>

\* the control of an F or H line: an expression, or a gain
CurrentControls ==
    << [controller |-> Expr, gain |-> None], [controller |-> None, gain |-> <<"2">>] >>

\* the name=value parameters of an R, C or L line
ValueParameters(lower, upper) ==
    <<None, lower :> <<"2">>, upper :> <<"3">>, (lower :> <<"2">>) @@ (upper :> <<"3">>)>>

OptionalValue == <<None, <<"1", "k">>>>
OptionalModel == <<None, Mod>>

InitDevices == Init /\ path = None /\ ~library

NextDevices ==
    \/ \E accepted \in BOOLEAN : ParseSource(accepted)
    \/ /\ Lines < MaxDeviceLines
       /\ Len(context) < MaxDepth
       /\ SubcktCmd(<<"A">>, None, <<Pin>>, EmptyDict)
    \/ SubcktEnd
    \/ \E dev \in {<<"E", "1">>, <<"e", "1">>}, c \in DOMAIN VoltageControls :
           /\ Lines < MaxDeviceLines
           /\ VoltageControlledVoltageSource(dev, Pin, Pin, VoltageControls[c].controller,
                  VoltageControls[c].positive, VoltageControls[c].negative,
                  VoltageControls[c].gain)
    \/ \E dev \in {<<"G", "1">>, <<"g", "1">>}, c \in DOMAIN VoltageControls :
           /\ Lines < MaxDeviceLines
           /\ VoltageControlledCurrentSource(dev, Pin, Pin, VoltageControls[c].controller,
                  VoltageControls[c].positive, VoltageControls[c].negative,
                  VoltageControls[c].gain)
    \/ \E dev \in {<<"F", "1">>, <<"f", "1">>}, c \in DOMAIN CurrentControls :
           /\ Lines < MaxDeviceLines
           /\ CurrentControlledCurrentSource(dev, Pin, Pin, CurrentControls[c].controller,
                                             CurrentControls[c].gain)
    \/ \E dev \in {<<"H", "1">>, <<"h", "1">>}, c \in DOMAIN CurrentControls :
           /\ Lines < MaxDeviceLines
           /\ CurrentControlledVoltageSource(dev, Pin, Pin, CurrentControls[c].controller,
                                             CurrentControls[c].gain)
    \/ \E m \in DOMAIN OptionalModel, v \in DOMAIN OptionalValue, p \in 1..4 :
           /\ Lines < MaxDeviceLines
           /\ Resistor(<<"R", "1">>, Pin, Pin, OptionalModel[m], OptionalValue[v],
                       ValueParameters("r", "R")[p])
    \/ \E m \in DOMAIN OptionalModel, v \in DOMAIN OptionalValue, p \in 1..4 :
           /\ Lines < MaxDeviceLines
           /\ Capacitor(<<"C", "1">>, Pin, Pin, OptionalModel[m], OptionalValue[v],
                        ValueParameters("c", "C")[p])
    \/ \E m \in DOMAIN OptionalModel, v \in DOMAIN OptionalValue, p \in 1..4 :
           /\ Lines < MaxDeviceLines
           /\ Inductor(<<"L", "1">>, Pin, Pin, OptionalModel[m], OptionalValue[v],
                       ValueParameters("l", "L")[p])
    \/ Resolve

SpecDevices == InitDevices /\ [][NextDevices]_vars

\* the files on disk, the arguments and the texts of the parses with .include lines:
\* the text is its .include lines, walked in order in the root scope
FileA == <<"/", "a">>
FileB == <<"/", "b">>

\* file systems: a plain include; a file that includes itself; a cycle through two
\* files; the main file including itself; a missing file; no file at all; two
\* includes
FileSystems ==
    << (MainPath :> Netlist(<<<<"a">>>>)) @@ (FileA :> NoIncludes),
       (MainPath :> Netlist(<<<<"a">>>>)) @@ (FileA :> Netlist(<<<<"a">>>>)),
       (MainPath :> Netlist(<<<<"a">>>>)) @@ (FileA :> Netlist(<<<<"b">>>>))
           @@ (FileB :> Netlist(<<<<"a">>>>)),
       (MainPath :> Netlist(<<<<"m">>>>)),
       (MainPath :> Netlist(<<<<"a">>>>)),
       EmptyDict,
       (MainPath :> Netlist(<<<<"a">>, <<"b">>>>)) @@ (FileA :> NoIncludes)
           @@ (FileB :> NoIncludes) >>

\* the source argument: not given, a text without .include lines, a text that
\* includes a
Sources == <<None, NoIncludes, Netlist(<<<<"a">>>>)>>

InitFiles ==
    /\ pc = "open"
    /\ path \in {None, MainPath}
    /\ \E s \in DOMAIN Sources : source = Sources[s]
    /\ library = FALSE
    /\ \E f \in DOMAIN FileSystems : files = FileSystems[f]
    /\ raw_code = None
    /\ scopes = << >>
    /\ present = 0
    /\ context = << >>
    /\ libraries = EmptyDict
    /\ library_calls = << >>
    /\ data = EmptyDict
    /\ error = None
    /\ parser = FALSE
    /\ ground = None
    /\ calls = << >>
    /\ builds = 0

NextFiles ==
    \/ Open
    \/ \E accepted \in BOOLEAN : ParseSource(accepted)
    \/ IncludeLine
    \/ /\ Walking
       /\ Len(scopes[Root].statements) = Len(raw_code.includes)
       /\ Resolve

SpecFiles == InitFiles /\ [][NextFiles]_vars

(***************************************************************************)
(* The IR as a tree                                                        *)
(***************************************************************************)
RECURSIVE Below(_)
\* the subcircuits defined in scope c, at any depth
Below(c) ==
    Range(scopes[c].subcircuits)
        \cup UNION {Below(scopes[c].subcircuits[i]) : i \in DOMAIN scopes[c].subcircuits}

\* the root circuit and every subcircuit at any nesting depth
AllScopes == {Root} \cup Below(Root)

\* scope s and the scopes that enclose it
Enclosing(s) == {c \in AllScopes : c = s \/ s \in Below(c)}

NameOf(s) == Lower(scopes[s].name)

\* the lowercased names of the subcircuits scope s defines itself
DefinedIn(s) == {NameOf(scopes[s].subcircuits[i]) : i \in DOMAIN scopes[s].subcircuits}

\* the lowercased names of the subcircuits defined in s or in a scope enclosing s
SubcktsVisible(s) == UNION {DefinedIn(c) : c \in Enclosing(s)}

\* the lowercased names of the models defined in s or in a scope enclosing s
ModelsVisible(s) ==
    UNION {{Lower(scopes[c].models[i].name) : i \in DOMAIN scopes[c].models} :
               c \in Enclosing(s)}

Done == pc = "done"

Failed == pc = "failed"

\* the constructor has run the resolver, to its end or to an exception
Resolved ==
    \/ Done
    \/ Failed /\ error.raised_in \in {"_check_models", "_sort_subcircuits"}

Message(text) == Failed /\ Contains(error.msg, text)

CrossedDependencies ==
    <<"C", "r", "o", "s", "s", "e", "d", " ",
      "d", "e", "p", "e", "n", "d", "e", "n", "c", "i", "e", "s">>

\* S names D among its required subcircuits
Requires(S, D) == NameOf(D) \in scopes[S].required_subcircuits

\* S instantiates D: S requires D's name and defines no subcircuit of that name itself
Uses(S, D) == Requires(S, D) /\ NameOf(D) \notin DefinedIn(S)

RECURSIVE Closure(_, _, _)
\* the pairs joined by a path of edges, over nodes, after n doublings
Closure(nodes, edges, n) ==
    IF n = 0 THEN edges
    ELSE LET e == Closure(nodes, edges, n - 1)
         IN e \cup {p \in nodes \X nodes :
                        \E m \in nodes : <<p[1], m>> \in e /\ <<m, p[2]>> \in e}

HasCycle(nodes, edges) ==
    \E a \in nodes : <<a, a>> \in Closure(nodes, edges, Cardinality(nodes))

\* the subcircuits of scope c instantiate one another in a cycle: some of them each
\* instantiate a name that they, and no other subcircuit of the scope, define (with
\* distinct names: a cycle of the graph of Uses)
UsesCycle(c) ==
    LET nodes == Range(scopes[c].subcircuits)
    IN \E K \in SUBSET nodes :
           /\ K # {}
           /\ \A S \in K : \E D \in K :
                  /\ Uses(S, D)
                  /\ \A other \in nodes : NameOf(other) = NameOf(D) => other \in K

RequiresCycle(c) ==
    LET nodes == Range(scopes[c].subcircuits)
    IN HasCycle(nodes, {p \in nodes \X nodes : Requires(p[1], p[2])})

\* every required subcircuit name is defined somewhere in the scope chain
SubcktsDefined == \A s \in AllScopes : scopes[s].required_subcircuits \subseteq SubcktsVisible(s)

\* every required model name is defined somewhere in the scope chain
ModelsDefined == \A s \in AllScopes : scopes[s].required_models \subseteq ModelsVisible(s)

(***************************************************************************)
(* C1: topological order of every scope's subcircuit list                  *)
(***************************************************************************)
\* C1, as stated: after a successful parse, for any two subcircuits S and D of one
\* scope such that S's required_subcircuits contains D's lowercased name, D comes
\* before S in the scope's subcircuit list.
C1_AsClaimed ==
    Done =>
        \A c \in AllScopes : \A i, j \in DOMAIN scopes[c].subcircuits :
            (i # j /\ Requires(scopes[c].subcircuits[i], scopes[c].subcircuits[j]))
                => j < i

\* C1, amended: after a successful parse, for any two subcircuits S and D of one
\* scope such that S's required_subcircuits contains D's lowercased name and S
\* defines no nested subcircuit of that name, D or another subcircuit of the scope
\* with D's lowercased name comes before S in the scope's subcircuit list.
C1_TopologicalOrder ==
    Done =>
        \A c \in AllScopes : \A i, j \in DOMAIN scopes[c].subcircuits :
            (i # j /\ Uses(scopes[c].subcircuits[i], scopes[c].subcircuits[j]))
                => \E k \in 1..(i - 1) :
                       NameOf(scopes[c].subcircuits[k]) = NameOf(scopes[c].subcircuits[j])

\* a successful parse whose sort moved a subcircuit in front of one defined before
\* it in the source (statements are numbered in source order) that instantiates it
C1_Witness ==
    /\ Done
    /\ \E c \in AllScopes : \E i, j \in DOMAIN scopes[c].subcircuits :
           /\ i < j
           /\ scopes[c].subcircuits[i] > scopes[c].subcircuits[j]
           /\ Uses(scopes[c].subcircuits[j], scopes[c].subcircuits[i])

(***************************************************************************)
(* C2: the sort succeeds on every acyclic, fully defined netlist           *)
(***************************************************************************)
\* C2, as stated: when every required subcircuit name is defined in the scope chain
\* and no scope's subcircuits instantiate one another in a cycle, the sort raises no
\* "Crossed dependencies" error (a nested subcircuit that instantiates a subcircuit
\* of an enclosing scope does not block the sort of its own scope).
C2_AsClaimed ==
    (Resolved /\ SubcktsDefined /\ \A c \in AllScopes : ~RequiresCycle(c))
        => ~Message(CrossedDependencies)

Instances(s) ==
    {scopes[s].statements[i] : i \in
         {j \in DOMAIN scopes[s].statements :
              /\ scopes[s].statements[j].stmt = "element"
              /\ scopes[s].statements[j].statement = "SubCircuitElement"}}

\* some scope holds an X element whose subcircuit is defined neither in that scope
\* nor in a scope enclosing it
InstantiatesUndefined ==
    \E s \in AllScopes : \E x \in Instances(s) : Lower(x.nodes[1]) \notin SubcktsVisible(s)

SubcircuitOpen == <<"S", "u", "b", "c", "i", "r", "c", "u", "i", "t", " ", "(">>

\* C7, as stated: if a scope instantiates a subcircuit defined neither in the scope
\* nor in an enclosing scope, the parse fails with a ParseError; if every
\* instantiated name is defined there, the check of the names does not fail.
C7_AsClaimed ==
    Resolved =>
        /\ InstantiatesUndefined => (Failed /\ error.type = "ParseError")
        /\ ~InstantiatesUndefined => ~Message(SubcircuitOpen)

(***************************************************************************)
(* C4: the model check                                                     *)
(***************************************************************************)
\* _check_models raised
ModelCheckFailed == Failed /\ error.raised_in = "_check_models"

\* C4: the model check passes exactly when, in every scope, each name of
\* required_models is the lowercased name of a model defined in that scope or in a
\* scope enclosing it; when it does not pass, the parse fails.
C4_ModelCheck ==
    Resolved =>
        /\ ~ModelCheckFailed <=> ModelsDefined
        /\ ~ModelsDefined => (Failed /\ ~parser)

\* the model check fails on a name that a model of the IR has, though not a model of
\* the requiring scope or of a scope enclosing it (a nested or sibling definition)
C4_Witness ==
    /\ ModelCheckFailed
    /\ \E s, c \in AllScopes :
           \E m \in scopes[s].required_models \ ModelsVisible(s) :
               \E i \in DOMAIN scopes[c].models : Lower(scopes[c].models[i].name) = m

(***************************************************************************)
(* C5: the message of a missing model                                      *)
(***************************************************************************)
\* the M elements of scope s
Mosfets(s) ==
    {scopes[s].statements[i] : i \in
         {j \in DOMAIN scopes[s].statements :
              /\ scopes[s].statements[j].stmt = "element"
              /\ scopes[s].statements[j].statement = "Mosfet"}}

\* the lowercased names of all models of the netlist
AllModels ==
    UNION {{Lower(scopes[c].models[i].name) : i \in DOMAIN scopes[c].models} :
               c \in AllScopes}

\* the lowercased model names that M elements give and no scope chain defines
UndefinedModels ==
    UNION {{Lower(x.params["model"]) : x \in Mosfets(s)} \ ModelsVisible(s) :
               s \in AllScopes}

Unkmod == <<"U", "N", "K", "M", "O", "D">>

\* a netlist parsed as a circuit (library=false) in which an M element names UNKMOD,
\* no .model matches it, and no other model reference is undefined
UnkmodNetlist ==
    /\ Resolved
    /\ ~library
    /\ \E s \in AllScopes : \E x \in Mosfets(s) : x.params["model"] = Unkmod
    /\ Lower(Unkmod) \notin AllModels
    /\ UndefinedModels = {Lower(Unkmod)}

\* C5, as stated: parsing a netlist in which a MOSFET references UNKMOD and no
\* matching .model exists fails with a ParseError whose message contains
\* "Model unkmod not available".
C5_AsClaimed ==
    UnkmodNetlist =>
        /\ Failed
        /\ error.type = "ParseError"
        /\ Contains(error.msg, <<"M", "o", "d", "e", "l", " ", "u", "n", "k", "m", "o", "d", " ", "n", "o", "t", " ", "a", "v", "a", "i", "l", "a", "b", "l", "e">>)

\* C5, amended: parsing (library=false) a netlist in which a MOSFET references
\* UNKMOD and no matching .model exists fails with a ParseError whose message
\* contains "Model (unkmod) not available": the lowercased name, in parentheses.
C5_MissingModelMessage ==
    UnkmodNetlist =>
        /\ Failed
        /\ error.type = "ParseError"
        /\ Contains(error.msg, <<"M", "o", "d", "e", "l", " ", "(", "u", "n", "k", "m", "o", "d", ")", " ", "n", "o", "t", " ", "a", "v", "a", "i", "l", "a", "b", "l", "e">>)

\* the scenario: the M element at the root, no .model at all, the parse failed
C5_Witness ==
    /\ UnkmodNetlist
    /\ Failed
    /\ \E x \in Mosfets(Root) : x.params["model"] = Unkmod
    /\ AllModels = {}

(***************************************************************************)
(* C6: the error type of a failed constructor                              *)
(***************************************************************************)
\* C6, as stated: every failure of the constructor surfaces as ParseError, whether
\* the grammar, the resolver or the walk of the tree raised (a BJT with incompatible
\* positional arguments, a switch with one control node, a .subckt/.ends or
\* .lib/.endl name mismatch, a .data value count the column count does not divide,
\* a missing or unreadable .include file).
C6_AsClaimed == Failed => error.type = "ParseError"

(***************************************************************************)
(* C8: the order of the calls of CircuitStatement.build                    *)
(***************************************************************************)
Built == pc = "built"

\* the place of a list in the order of the claim
GroupRank(group) ==
    CASE group = "library_call" -> 1
      [] group = "param" -> 2
      [] group = "model" -> 3
      [] group = "subcircuit" -> 4
      [] group = "element" -> 5

\* statement f is replayed before statement g of the same scope
FrameBefore(f, g) ==
    \/ GroupRank(f.group) < GroupRank(g.group)
    \/ f.group = g.group /\ f.index < g.index

\* call a may precede call b
InOrder(a, b) ==
    LET la == Len(a.origin)
        lb == Len(b.origin)
        differ == {d \in 1..(IF la < lb THEN la ELSE lb) : a.origin[d] # b.origin[d]}
    IN IF differ # {}
       THEN LET d == CHOOSE e \in differ : \A o \in differ : e <= o
            IN FrameBefore(a.origin[d], b.origin[d])
       ELSE IF la < lb THEN a.op \in {"Circuit", "SubCircuit"}
       ELSE IF la > lb THEN b.op = "subcircuit"
       ELSE \/ a.op = "SubCircuit" /\ b.op = "subcircuit"
            \/ a.op = "parameter" /\ b.op = "parameter"

\* the calls that replay entry index of list group of the root circuit itself
RootCalls(op, group, index) ==
    {i \in DOMAIN calls :
         /\ calls[i].op = op
         /\ calls[i].sink = CircuitSink
         /\ calls[i].origin = <<Frame(Root, group, index)>>}

\* C8: the calls of CircuitStatement.build come in the order library-call replays,
\* parameters, models, subcircuits, elements, and within a list in the list's order;
\* each subcircuit of the circuit is built to completion (every call on the new
\* SubCircuit object is made) and is then registered once with circuit.subcircuit;
\* each model and each element of the circuit is replayed once.
C8_BuildOrder ==
    Built =>
        /\ \A i, j \in DOMAIN calls : i < j => InOrder(calls[i], calls[j])
        /\ \A k \in DOMAIN scopes[Root].subcircuits :
               \E i, j \in DOMAIN calls :
                   /\ calls[i].op = "SubCircuit"
                   /\ calls[i].origin = <<Frame(Root, "subcircuit", k)>>
                   /\ RootCalls("subcircuit", "subcircuit", k) = {j}
                   /\ calls[j].subckt = calls[i].sink
                   /\ \A m \in DOMAIN calls : calls[m].sink = calls[i].sink => i <= m /\ m < j
        /\ \A k \in DOMAIN scopes[Root].models :
               Cardinality(RootCalls("model", "model", k)) = 1
        /\ \A k \in DOMAIN scopes[Root].statements :
               Cardinality(RootCalls("element", "element", k)) =
                   IF scopes[Root].statements[k].stmt = "element" THEN 1 ELSE 0

\* a build that replays a library call, then registers a subcircuit, then
\* instantiates an element
C8_Witness ==
    /\ Built
    /\ \E i, j, k \in DOMAIN calls :
           /\ i < j /\ j < k
           /\ Len(calls[i].origin) = 2 /\ calls[i].origin[1].group = "library_call"
           /\ calls[j].op = "subcircuit" /\ calls[j].sink = CircuitSink
           /\ calls[k].op = "element" /\ calls[k].sink = CircuitSink

(***************************************************************************)
(* C9: the ground node                                                     *)
(***************************************************************************)
\* the statement that the last frame of a call's origin names
Replayed(call) ==
    LET frame == call.origin[Len(call.origin)]
    IN scopes[frame.scope].statements[frame.index]

\* the node list with every token whose text is p_ground rewritten to the integer 0
Translated(nodes, p_ground) ==
    [k \in DOMAIN nodes |-> IF Str(nodes[k]) = p_ground THEN IntZero ELSE nodes[k]]

\* C9, as stated: in build_circuit(ground=g) every element, at the root and in
\* every subcircuit, is instantiated with each node token whose text equals g
\* replaced by the integer 0 and every other node token unchanged.
C9_AsClaimed ==
    Built =>
        \A i \in DOMAIN calls :
            calls[i].op = "element" =>
                calls[i].nodes = Translated(Replayed(calls[i]).nodes, ground)

(***************************************************************************)
(* C10: the replay of a library call                                       *)
(***************************************************************************)
\* the calls on the circuit that replay entry index of list group of library lib
\* for library call c
ReplayCalls(c, lib, op, group, index) ==
    {i \in DOMAIN calls :
         /\ calls[i].op = op
         /\ calls[i].sink = CircuitSink
         /\ calls[i].origin = <<Frame(Root, "library_call", c), Frame(lib, group, index)>>}

\* C10, as stated: for each library call, build replays the params, models and
\* subcircuits of the named library into the circuit: every param reaches
\* circuit.parameter, every model circuit.model, and every subcircuit of the
\* library is built and registered with circuit.subcircuit.
C10_AsClaimed ==
    Built =>
        \A c \in DOMAIN library_calls :
            LET lib == libraries[library_calls[c].entry]
            IN /\ \A k \in DOMAIN scopes[lib].params :
                      \A key \in DOMAIN scopes[lib].params[k].parameters :
                          \E i \in ReplayCalls(c, lib, "parameter", "param", k) :
                              calls[i].key = key
               /\ \A k \in DOMAIN scopes[lib].models :
                      ReplayCalls(c, lib, "model", "model", k) # {}
               /\ \A k \in DOMAIN scopes[lib].subcircuits :
                      ReplayCalls(c, lib, "subcircuit", "subcircuit", k) # {}

(***************************************************************************)
(* C11: the references a scope records while it is walked                  *)
(***************************************************************************)
\* the positions of the elements of scope s
ElementsOf(s) ==
    {i \in DOMAIN scopes[s].statements : scopes[s].statements[i].stmt = "element"}

\* the lowercased model names of the elements scope s holds itself
DirectModels(s) ==
    {Lower(scopes[s].statements[i].params["model"]) :
         i \in {j \in ElementsOf(s) : "model" \in DOMAIN scopes[s].statements[j].params}}

\* the lowercased subcircuit names of the X elements scope s holds itself
DirectSubcircuits(s) ==
    {Lower(scopes[s].statements[i].nodes[1]) :
         i \in {j \in ElementsOf(s) :
                    scopes[s].statements[j].statement = "SubCircuitElement"}}

\* the walk of an element that references a model or a subcircuit failed on the
\* current scope, which has no required sets
ReferenceRefused ==
    /\ Failed
    /\ error.type = "AttributeError"
    /\ error.raised_in \in {"walk_BJT", "walk_MOSFET", "walk_Resistor", "walk_Switch",
                            "walk_Subcircuit"}

\* C11, as stated: while walking, every model reference of an element is lowercased
\* and added to required_models of the scope that is current, every X element adds
\* the lowercased subcircuit name to its required_subcircuits, whatever the kind of
\* the current scope (root circuit, subcircuit, .lib block), and a scope's sets hold
\* the references of the elements it contains directly and no others.
C11_AsClaimed ==
    /\ ~ReferenceRefused
    /\ (Walking \/ Done) =>
           \A s \in DOMAIN scopes :
               /\ scopes[s].required_models = DirectModels(s)
               /\ scopes[s].required_subcircuits = DirectSubcircuits(s)

(***************************************************************************)
(* C12: the promotion of a library's definitions                           *)
(***************************************************************************)
\* the lowercased names of the models scope s defines itself
ModelsIn(s) == {Lower(scopes[s].models[i].name) : i \in DOMAIN scopes[s].models}

\* C12, as stated: when the parser is constructed with library=true, the root's
\* required_models and required_subcircuits hold the names of the root's own models
\* and subcircuits, and still hold every model and subcircuit that the elements
\* directly contained in the root reference.
C12_AsClaimed ==
    (Resolved /\ library) =>
        /\ ModelsIn(Root) \cup DirectModels(Root) \subseteq scopes[Root].required_models
        /\ DefinedIn(Root) \cup DirectSubcircuits(Root)
               \subseteq scopes[Root].required_subcircuits

(***************************************************************************)
(* C13: the elements of E, F, G and H lines                                *)
(***************************************************************************)
\* the device letter of the line an element was made of, in lower case
LetterOf(element) ==
    IF element.prefix = "B" THEN LowerChar(Head(element.name))
    ELSE LowerChar(element.prefix)

\* element i of scope s was made of an E, F, G or H line
IsControlled(s, i) ==
    /\ i \in ElementsOf(s)
    /\ LetterOf(scopes[s].statements[i]) \in {"e", "f", "g", "h"}

\* the keyword of element i of scope s holds an expression, and E and H lines hold
\* it under voltage, F and G lines under current
HoldsExpression(s, i, voltage, current) ==
    LET element == scopes[s].statements[i]
    IN /\ element.statement = "BehavioralSource"
       /\ Cardinality(DOMAIN element.params \cap {voltage, current}) = 1
       /\ LetterOf(element) \in {"e", "h"} => voltage \in DOMAIN element.params
       /\ LetterOf(element) \in {"f", "g"} => current \in DOMAIN element.params

DeviceAnyCase(ast) ==
    IF LowerChar(Head(ast)) \in {"e", "f", "g", "h"} THEN <<"B">> \o ast ELSE ast

\* the element was walked from an E, F, G or H line: only the walkers of the controlled
\* sources store a BehavioralSource
FromControlledLine(s, i) ==
    /\ scopes[s].statements[i].stmt = "element"
    /\ scopes[s].statements[i].statement = "BehavioralSource"

\* the instance name the element was walked from
WalkedName(s, i) == <<scopes[s].statements[i].prefix>> \o scopes[s].statements[i].name

\* C14, as stated: the walker rewrites the device letter of an element whose instance
\* name starts with E, F, G or H, in upper or lower case, to B (the stored element
\* has prefix B and the instance name as the remainder), and stores an instance
\* name that starts with another letter unchanged.
C14_AsClaimed ==
    \A s \in DOMAIN scopes : \A i \in DOMAIN scopes[s].statements :
        FromControlledLine(s, i) =>
            WalkedName(s, i) = DeviceAnyCase(Tail(WalkedName(s, i)))

(***************************************************************************)
(* C15: the positional forms of a Q line                                   *)
(***************************************************************************)
\* the positional texts are one of the four documented forms
Documented(args) == Len(args) \in {1, 2} \/ (Len(args) = 3 /\ IsNumber(args[3]))

\* the reading of a documented form: the model, the thermal node (as a list of nodes)
\* and the area
DocumentedForm(args) ==
    CASE Len(args) = 1 -> [model |-> args[1], thermal |-> << >>, area |-> None]
      [] Len(args) = 2 /\ IsNumber(args[2]) ->
             [model |-> args[1], thermal |-> << >>, area |-> ToNumber(args[2])]
      [] Len(args) = 2 /\ ~IsNumber(args[2]) ->
             [model |-> args[2], thermal |-> <<args[1]>>, area |-> None]
      [] OTHER -> [model |-> args[2], thermal |-> <<args[1]>>, area |-> ToNumber(args[3])]

\* the step appended exactly one element to the current scope
AppendedOne ==
    /\ pc' = "walk"
    /\ present' = present
    /\ Len(scopes'[present].statements) = Len(scopes[present].statements) + 1
    /\ scopes'[present].statements[Len(scopes'[present].statements)].stmt = "element"

\* the element the step appended
NewElement == scopes'[present].statements[Len(scopes'[present].statements)]

\* the step raised and appended no element
RaisedAppendedNone ==
    /\ pc' = "failed"
    /\ scopes'[present].statements = scopes[present].statements

\* the step of a Q line without area= read the positional texts as documented;
\* three texts of which the last is no number are the substrate, thermal, model
\* form and are left open here
ReadAsDocumented(substrate, args) ==
    IF Documented(args)
    THEN /\ AppendedOne
         /\ NewElement.params["model"] = DocumentedForm(args).model
         /\ Lower(DocumentedForm(args).model) \in scopes'[present].required_models
         /\ NewElement.nodes = <<Pin, Pin, Pin>>
                                   \o (IF substrate # None THEN <<substrate>> ELSE << >>)
                                   \o DocumentedForm(args).thermal
         /\ IF DocumentedForm(args).area = None
            THEN "area" \notin DOMAIN NewElement.params
            ELSE /\ "area" \in DOMAIN NewElement.params
                 /\ NewElement.params["area"] = DocumentedForm(args).area
    ELSE Len(args) # 3 => RaisedAppendedNone

\* C15: a Q line without area= is accepted in each of the four documented forms of
\* its positional texts (model; model area; thermal model; thermal model area) and
\* then appends exactly one element with the model in its params, the model's
\* lowercased name in required_models, the thermal node after the other nodes and
\* the area stored; no text or more than three texts raise and append nothing.
\* Stated for the scopes that keep required_models.
C15_AsClaimed ==
    [][\A a \in DOMAIN BjtArgs, s \in DOMAIN OptionalNode :
           (/\ Walking
            /\ HasRequired(scopes[present].kind)
            /\ BJT(Bjt, Pin, Pin, Pin, OptionalNode[s], None, BjtArgs[a], None))
               => ReadAsDocumented(OptionalNode[s], BjtArgs[a])]_vars


(***************************************************************************)
(* C16: the area= keyword of a Q line                                      *)
(***************************************************************************)
\* the value of the area= keyword of the lines
AreaKeyword == OptionalArea[2]

\* C16, as stated: a Q line with an area= keyword and one, two or three positional
\* texts appends an element that has a model name and whose params hold the
\* keyword's value as area.  Stated for the scopes that keep required_models.
C16_AsClaimed ==
    [][\A a \in DOMAIN BjtArgs, s \in DOMAIN OptionalNode :
           (/\ Walking
            /\ HasRequired(scopes[present].kind)
            /\ Len(BjtArgs[a]) \in 1..3
            /\ BJT(Bjt, Pin, Pin, Pin, OptionalNode[s], AreaKeyword, BjtArgs[a], None))
               => /\ AppendedOne
                  /\ "model" \in DOMAIN NewElement.params
                  /\ "area" \in DOMAIN NewElement.params
                  /\ NewElement.params["area"] = AreaKeyword]_vars


(***************************************************************************)
(* C17: the value of an R, C or L line                                     *)
(***************************************************************************)
\* the key of the value in the params of a Resistor, Capacitor or Inductor
LongKey(statement) ==
    CASE statement = "Resistor" -> "resistance"
      [] statement = "Capacitor" -> "capacitance"
      [] statement = "Inductor" -> "inductance"

\* the statement is the element of an R, C or L line
IsValued(s, i) ==
    /\ scopes[s].statements[i].stmt = "element"
    /\ scopes[s].statements[i].statement \in {"Resistor", "Capacitor", "Inductor"}

\* C17, as stated: an R, C or L line with neither a positional value nor the r=, c=
\* or l= keyword is accepted only if it names a model, so every stored Resistor,
\* Capacitor or Inductor has its value under resistance, capacitance or inductance,
\* or else a model.
C17_AsClaimed ==
    \A s \in DOMAIN scopes : \A i \in DOMAIN scopes[s].statements :
        IsValued(s, i) =>
            \/ LongKey(scopes[s].statements[i].statement)
                   \in DOMAIN scopes[s].statements[i].params
            \/ "model" \in DOMAIN scopes[s].statements[i].params


(***************************************************************************)
(* C18: the control nodes of an S line                                     *)
(***************************************************************************)
\* the step of an S line went as the claim says: two nodes without control nodes,
\* four with both, and the device-shape error of the switch with one of them
SwitchAsClaimed(control_p, control_n) ==
    IF control_p = None /\ control_n = None
    THEN AppendedOne /\ NewElement.nodes = <<Pin, Pin>>
    ELSE IF control_p # None /\ control_n # None
    THEN AppendedOne /\ NewElement.nodes = <<Pin, Pin, control_p, control_n>>
    ELSE /\ RaisedAppendedNone
         /\ error'.type = "ValueError"
         /\ error'.msg = OneControlMessage

\* C18, as stated: an S line without control nodes appends an element of 2 nodes,
\* one with both control nodes an element of 4 nodes (positive, negative,
\* control_p, control_n), and one with exactly one control node, whichever it is,
\* fails with the device-shape error of the switch and appends nothing.  Stated
\* for the lines whose model, if any, the current scope can record.
C18_AsClaimed ==
    [][\A p \in DOMAIN OptionalNode, n \in DOMAIN OptionalNode, m \in {None, Mod} :
           (/\ Walking
            /\ m # None => HasRequired(scopes[present].kind)
            /\ Switch(Sw, Pin, Pin, OptionalNode[p], OptionalNode[n], m, None))
               => SwitchAsClaimed(OptionalNode[p], OptionalNode[n])]_vars


(***************************************************************************)
(* C19: the names of the opener and the closer of a block                  *)
(***************************************************************************)
\* the names the .lib and .endl lines of a block wrote: node.entry is the opener's
\* text when .endl has no name, and the list of both texts when it has one
LibOpener(e) == IF e.is_list THEN e.entries[1] ELSE e.entries
LibCloser(e) == IF e.is_list THEN e.entries[2] ELSE None

\* the step raised and opened no scope
RaisedOpenedNone ==
    /\ pc' = "failed"
    /\ scopes' = scopes
    /\ libraries' = libraries

\* the step opened the scope of a definition of that kind and name
Opened(kind, name) ==
    /\ pc' = "walk"
    /\ Len(scopes') = Len(scopes) + 1
    /\ present' = Len(scopes')
    /\ scopes'[present'].kind = kind
    /\ scopes'[present'].name = name

\* the step went as the claim says for a block of that kind, opener and closer
BlockAsClaimed(kind, opener, closer) ==
    IF closer # None /\ closer # opener THEN RaisedOpenedNone ELSE Opened(kind, opener)

\* every registered library is registered under the name of its scope
KeyedByName == \A key \in DOMAIN libraries : scopes[libraries[key]].name = key

\* C19, as stated: a .lib or .subckt block whose closer names another name than its
\* opener is fatal and defines nothing; a block whose closer has no name, or the
\* opener's name, is accepted and defined under the opener's name, which for a
\* library is its key in the libraries map.
C19_AsClaimed ==
    [][/\ \A e \in DOMAIN LibEntries :
              (Walking /\ LibBlock(LibEntries[e].entries, LibEntries[e].is_list))
                  => BlockAsClaimed("lib", LibOpener(LibEntries[e]),
                                    LibCloser(LibEntries[e]))
       /\ \A closer \in {None, <<"A">>, <<"a">>} :
              (Walking /\ SubcktCmd(<<"A">>, closer, <<Pin>>, EmptyDict))
                  => BlockAsClaimed("subckt", <<"A">>, closer)
       /\ KeyedByName']_vars


(***************************************************************************)
(* C20: the columns of a .data table                                       *)
(***************************************************************************)
\* the step stored the table of the values, column by column: as many columns as
\* names, each of Len(values) \div Len(names) values, column i holding the values
\* at i, i + n, i + 2n, ... of the line
StoredByColumn(table, names, values) ==
    /\ pc' = "walk"
    /\ table \in DOMAIN data'
    /\ DOMAIN data'[table].parameters = Range(names)
    /\ \A i \in DOMAIN names :
           LET column == data'[table].parameters[names[i]]
           IN /\ Len(column) = Len(values) \div Len(names)
              /\ \A j \in DOMAIN column : column[j] = values[i + (j - 1) * Len(names)]

IncludeCycleText == <<"i", "n", "c", "l", "u", "d", "e", " ", "c", "y", "c", "l", "e">>

\* every file that a .include line of the text or of a file names is on disk
AllIncludedOnDisk ==
    /\ raw_code # None =>
           \A i \in DOMAIN raw_code.includes :
               IncludedFile(CircuitPath, raw_code.includes[i]) \in DOMAIN files
    /\ \A p \in DOMAIN files : \A i \in DOMAIN files[p].includes :
           IncludedFile(p, files[p].includes[i]) \in DOMAIN files

\* the parse failed at a .include line although no file is missing: the .include
\* lines form a cycle
FailedOnCycle ==
    /\ pc = "failed"
    /\ error.raised_in = "IncludeStatement.__init__"
    /\ AllIncludedOnDisk

\* C21, as stated: when the .include lines form a cycle the cycle is detected and the
\* parse fails with ParseError("include cycle").
C21_AsClaimed ==
    FailedOnCycle => error.type = "ParseError" /\ Contains(error.msg, IncludeCycleText)


(***************************************************************************)
(* C22: the predicates for library files                                   *)
(***************************************************************************)
\* the root holds subcircuit definitions and no statements
OnlySubcircuits == scopes[Root].subcircuits # << >> /\ scopes[Root].statements = << >>

\* the root holds model definitions, no subcircuit definitions and no statements
OnlyModels ==
    /\ scopes[Root].models # << >>
    /\ scopes[Root].subcircuits = << >>
    /\ scopes[Root].statements = << >>

\* C22, as stated: of a parse that succeeded, is_only_subcircuit() is true when the
\* root holds subcircuit definitions and no element statements, is_only_model() is
\* true when it holds model definitions, no subcircuits and no element statements,
\* and both are false for a circuit with elements.
C22_AsClaimed ==
    Done => /\ OnlySubcircuits => is_only_subcircuit
            /\ OnlyModels => is_only_model
            /\ scopes[Root].statements # << >> => ~is_only_subcircuit /\ ~is_only_model


(***************************************************************************)
(* C23: the letter case of a definition's name                             *)
(***************************************************************************)
\* the walker accepts, in the current state, the opener of a .subckt block of that
\* name whose .ends line names closer
OpensSubckt(name, closer) ==
    ENABLED (SubcktCmd(name, closer, <<Pin>>, EmptyDict) /\ pc' = "walk")

\* C23, as stated, for the opener of a .subckt block: changing only the letter case
\* of the name in the opener, while the .ends line keeps its case, does not change
\* whether the parse succeeds.
C23_AsClaimed ==
    Walking => \A closer \in {None, <<"A">>, <<"a">>} :
                   OpensSubckt(<<"A">>, closer) <=> OpensSubckt(Lower(<<"A">>), closer)


(***************************************************************************)
(* C24: the text that is parsed                                            *)
(***************************************************************************)
\* C24, as stated: with source given, with or without path, the text handed to the
\* grammar is source and the file at path is not read; with path alone it is the
\* content of the file; with neither the construction fails.
C24_AsClaimed ==
    pc # "open" =>
        IF source # None THEN raw_code = source
        ELSE IF path # None THEN path \in DOMAIN files => raw_code = files[path]
        ELSE /\ pc = "failed"
             /\ error.type = "ValueError"
             /\ error.msg = NoPathOrSourceMessage


(***************************************************************************)
(* C25: the order of the subcircuits selected in one pass                  *)
(***************************************************************************)
\* what the sort of the enclosing scope waits for before it selects S
Depends(S) == scopes[S].required_subcircuits \ DefinedIn(S)

\* S was defined before D in the source: the scopes are numbered as they are opened
DefinedBefore(S, D) == S < D

\* S has fewer dependencies than D, or as many and was defined before D
FewerOrBefore(S, D) ==
    \/ Cardinality(Depends(S)) < Cardinality(Depends(D))
    \/ Cardinality(Depends(S)) = Cardinality(Depends(D)) /\ DefinedBefore(S, D)

\* the subcircuits of scope c with their dependencies, in the order of FewerOrBefore
ItemsOf(c) ==
    LET ordered == SortSeq(scopes[c].subcircuits, FewerOrBefore)
    IN [i \in DOMAIN ordered |-> [subckt |-> ordered[i], depends |-> Depends(ordered[i])]]

\* the items left, and the result, after k passes over the subcircuits of scope c
RECURSIVE AfterPasses(_, _)
AfterPasses(c, k) ==
    IF k = 0 THEN [items |-> ItemsOf(c), result |-> << >>, result_names |-> << >>]
    ELSE LET before == AfterPasses(c, k - 1)
             pass == SortPass(scopes, before.items, 1, before.result, before.result_names)
         IN [items |-> SelectSeq(before.items,
                                 LAMBDA item : item.subckt \notin Range(pass.result)),
             result |-> pass.result, result_names |-> pass.result_names]

\* the pass that selects subcircuit S of scope c
PassOf(c, S) ==
    CHOOSE k \in 1..Len(scopes[c].subcircuits) :
        /\ S \in Range(AfterPasses(c, k).result)
        /\ S \notin Range(AfterPasses(c, k - 1).result)

\* C25, as stated: in every scope of a resolved IR the subcircuits selected in the
\* same pass stand in the order of their definition in the source.
C25_AsClaimed ==
    Done =>
        \A c \in AllScopes : \A i, j \in DOMAIN scopes[c].subcircuits :
            (i < j /\ PassOf(c, scopes[c].subcircuits[i]) = PassOf(c, scopes[c].subcircuits[j]))
                => DefinedBefore(scopes[c].subcircuits[i], scopes[c].subcircuits[j])

\* C25, amended: the order of every scope's subcircuits is fixed by the IR: a
\* subcircuit of an earlier pass stands before one of a later pass, and the
\* subcircuits selected in the same pass stand in the order of the number of their
\* dependencies and, for the same number, of their definition in the source.
C25_OrderByPass ==
    Done =>
        \A c \in AllScopes : \A i, j \in DOMAIN scopes[c].subcircuits :
            i < j =>
                LET S == scopes[c].subcircuits[i]
                    D == scopes[c].subcircuits[j]
                IN \/ PassOf(c, S) < PassOf(c, D)
                   \/ PassOf(c, S) = PassOf(c, D) /\ FewerOrBefore(S, D)

\* a resolved scope with two subcircuits of one pass, the one defined later first
C25_Witness ==
    /\ Done
    /\ \E c \in AllScopes : \E i, j \in DOMAIN scopes[c].subcircuits :
           /\ i < j
           /\ PassOf(c, scopes[c].subcircuits[i]) = PassOf(c, scopes[c].subcircuits[j])
           /\ DefinedBefore(scopes[c].subcircuits[j], scopes[c].subcircuits[i])


(***************************************************************************)
(* C26: the libraries map of the root                                      *)
(***************************************************************************)
\* C26, as stated: when a .lib block closes, wherever it stands (in the root, in a
\* .subckt block or in another .lib block), the walk goes on and the block is in
\* the libraries map of the root under the name of its entry.
C26_AsClaimed ==
    [][(Walking /\ LibEnd)
           => /\ pc' = "walk"
              /\ scopes[present].name \in DOMAIN libraries'
              /\ libraries'[scopes[present].name] = present]_vars


(***************************************************************************)
(* C27: the stack of the scopes                                            *)
(***************************************************************************)
\* the step opens a .subckt or .lib block of the lines of the walk
OpensBlock ==
    \/ \E closer \in {None, <<"A">>, <<"a">>} : SubcktCmd(<<"A">>, closer, <<Pin>>, EmptyDict)
    \/ \E e \in DOMAIN LibEntries : LibBlock(LibEntries[e].entries, LibEntries[e].is_list)

\* the step pushed the current scope and made a new definition current
Pushed ==
    /\ context' = Append(context, present)
    /\ present' = Len(scopes) + 1
    /\ Len(scopes') = Len(scopes) + 1

\* the step popped the parent, made it current and appended the closed definition
\* to it
Popped ==
    /\ pc' = "walk"
    /\ context' = SubSeq(context, 1, Len(context) - 1)
    /\ present' = context[Len(context)]
    /\ \/ present \in Range(scopes'[present'].subcircuits)
       \/ present' = Root /\ present \in Range(libraries')

\* C27, as stated: a .subckt or .lib opener that is accepted pushes the current
\* scope and makes the new definition current; the close of a block pops the parent,
\* appends the definition to it and makes it current again; and when walk_Circuit
\* has finished the stack is empty and the root is current.
C27_AsClaimed ==
    [][/\ (Walking /\ OpensBlock /\ pc' = "walk") => Pushed
       /\ (Walking /\ (SubcktEnd \/ LibEnd)) => Popped
       /\ Resolved' => context' = << >> /\ present' = Root]_vars


(***************************************************************************)
(* C28: the expression synthesized for a linear controlled source          *)
(***************************************************************************)
\* the expression of element i of scope s, under its key V or I
ExpressionOf(s, i) ==
    LET params == scopes[s].statements[i].params
    IN IF "V" \in DOMAIN params THEN params["V"] ELSE params["I"]

\* the walker synthesized the expression of the element: the line has no controller
\* expression
IsSynthesized(s, i) ==
    /\ IsControlled(s, i)
    /\ scopes[s].statements[i].statement = "BehavioralSource"
    /\ "function" \in DOMAIN ExpressionOf(s, i)

\* C28, as stated: the expression synthesized for an E or G line is V of two control
\* nodes times the gain of the line, and the one for an F or H line is I of the
\* controlling source named on the line, not of the F or H element itself, times
\* the gain of the line.
C28_AsClaimed ==
    \A s \in DOMAIN scopes : \A i \in DOMAIN scopes[s].statements :
        IsSynthesized(s, i) =>
            LET element == scopes[s].statements[i]
                expression == ExpressionOf(s, i)
            IN /\ LetterOf(element) \in {"e", "g"} =>
                      /\ expression.function = "V"
                      /\ Len(expression.arguments) = 2
               /\ LetterOf(element) \in {"f", "h"} =>
                      /\ expression.function = "I"
                      /\ expression.arguments
                             \notin {<<element.name>>, <<WalkedName(s, i)>>}
               /\ expression.times # None


(***************************************************************************)
(* C29: what the resolver changes                                          *)
(***************************************************************************)
\* list a holds the entries of list b, each as often as b holds it
IsPermutation(a, b) ==
    /\ Len(a) = Len(b)
    /\ \A x \in Range(a) \cup Range(b) :
           Cardinality({i \in DOMAIN a : a[i] = x}) = Cardinality({i \in DOMAIN b : b[i] = x})

\* scope after is scope before but for the order of its subcircuits
OnlyReordered(before, after) ==
    /\ IsPermutation(after.subcircuits, before.subcircuits)
    /\ [after EXCEPT !.subcircuits = before.subcircuits] = before

\* C29: when _check_models and _sort_subcircuits return without error, every scope's
\* subcircuit list is a permutation of the list it had before (nothing dropped,
\* added or duplicated, also when subcircuits share a name), and nothing else of
\* the IR has changed.
C29_OnlyReordered ==
    [][(Walking /\ Done')
           => /\ DOMAIN scopes' = DOMAIN scopes
              /\ \A s \in DOMAIN scopes : OnlyReordered(Promoted(scopes)[s], scopes'[s])
              /\ UNCHANGED <<present, context, libraries, library_calls, data>>]_vars

\* a resolved IR with a scope that holds two subcircuits of one name, and a scope
\* whose subcircuits the sort has reordered
C29_Witness ==
    /\ Done
    /\ \E c \in AllScopes : \E i, j \in DOMAIN scopes[c].subcircuits :
           /\ i < j
           /\ NameOf(scopes[c].subcircuits[i]) = NameOf(scopes[c].subcircuits[j])
    /\ \E c \in AllScopes : \E i, j \in DOMAIN scopes[c].subcircuits :
           /\ i < j
           /\ scopes[c].subcircuits[i] > scopes[c].subcircuits[j]

(***************************************************************************)
(* C30: build leaves the parsed circuit as it found it                     *)
(***************************************************************************)
\* build_circuit(ground=p_ground) is called on a parser that was built before
\* with the same ground
BuiltAgain(p_ground) == builds > 0 /\ ground = Str(p_ground) /\ BuildCircuit(p_ground)

====
